---------------------------- MODULE Spec2Model ----------------------------
(***************************************************************************)
(* A model of llm.c/train_gpt2.c: the tensor layout planner, the forward   *)
(* pass of the GPT-2 model (gpt2_forward, one step per kernel call), the   *)
(* AdamW update (gpt2_update, one step per parameter element) and the      *)
(* training loop of main().                                                *)
(*                                                                         *)
(* Buffers are tuples; element i of the C array is element i+1 of the      *)
(* tuple (At/Put below).  A pointer into a buffer is its 0-based offset.   *)
(* NULL is the empty tuple.  A float is a fixed-point decimal with nine    *)
(* fractional digits (an integer count of 1e-9), truncated toward zero.    *)
(***************************************************************************)
EXTENDS Integers, Sequences, FiniteSets, TLC

(***************************************************************************)
(* Bounds of the model.                                                    *)
(***************************************************************************)
\* num_layers ranges over 1..MaxLayers
MaxLayers == 2
\* a batch size B ranges over 1..MaxBatch
MaxBatch == 2
\* a sequence length T ranges over 1..MaxSeq
MaxSeq == 2

NULL == <<>>

At(buf, i) == buf[i + 1]

Put(buf, i, x) == [buf EXCEPT ![i + 1] = x]

Range0(n) == 0 .. (n - 1)

RECURSIVE SumTo(_, _)
\* sizes[1] + ... + sizes[n]
SumTo(sizes, n) == IF n = 0 THEN 0 ELSE SumTo(sizes, n - 1) + sizes[n]

(***************************************************************************)
(* float arithmetic, in units of 1e-9.                                     *)
(***************************************************************************)
Scale == 1000000000

Abs(x) == IF x < 0 THEN 0 - x ELSE x

Sgn(x) == IF x < 0 THEN 0 - 1 ELSE 1

\* the digit of weight 1000^k of x >= 0
Digit(x, k) ==
    IF k = 0 THEN x % 1000
    ELSE IF k = 1 THEN (x \div 1000) % 1000
    ELSE IF k = 2 THEN (x \div 1000000) % 1000
    ELSE x \div 1000000000

\* the sum of the digit products of weight 1000^k in x * y
DigitProducts(x, y, k) ==
    LET P(i) == IF k - i \in 0 .. 3 THEN Digit(x, i) * Digit(y, k - i) ELSE 0
    IN  P(0) + P(1) + P(2) + P(3)

\* (x * y) \div Scale for x, y >= 0, computed from the digits of x and y
\* because x * y does not fit the integer width
MulScaled(x, y) ==
    LET carry == (DigitProducts(x, y, 2)
                    + ((DigitProducts(x, y, 1)
                          + (DigitProducts(x, y, 0) \div 1000)) \div 1000))
                 \div 1000
    IN  DigitProducts(x, y, 3) + carry
          + 1000 * DigitProducts(x, y, 4)
          + 1000000 * DigitProducts(x, y, 5)
          + 1000000000 * DigitProducts(x, y, 6)

\* <<(r * 1000) \div c, (r * 1000) % c>> for 0 <= r < c, computed without
\* forming r * 1000 when that does not fit the integer width
TimesThousand(r, c) ==
    IF c <= 2000000 THEN <<(r * 1000) \div c, (r * 1000) % c>>
    ELSE LET k == c \div 1000
             e == r \div k
             t == 1000 * (r - e * k) - e * (c % 1000)
         IN  IF t >= 0 THEN <<e, t>> ELSE <<e - 1, t + c>>

\* (x * Scale) \div y for x >= 0 and y > 0, by long division
DivScaled(x, y) ==
    LET d1 == TimesThousand(x % y, y)
        d2 == TimesThousand(d1[2], y)
        d3 == TimesThousand(d2[2], y)
    IN  (x \div y) * Scale + d1[1] * 1000000 + d2[1] * 1000 + d3[1]

\* x * y
FMul(x, y) == Sgn(x) * Sgn(y) * MulScaled(Abs(x), Abs(y))

\* x / y  (y # 0)
FDiv(x, y) == Sgn(x) * Sgn(y) * DivScaled(Abs(x), Abs(y))

RECURSIVE FPow(_, _)
\* powf(x, t) for an integer t >= 0
FPow(x, t) == IF t = 0 THEN Scale ELSE FMul(FPow(x, t - 1), x)

RECURSIVE SqrtIter(_, _)
\* Newton's iteration for the integer square root of x * Scale, from above
SqrtIter(x, r) ==
    LET q == DivScaled(x, r)
        y == q + ((r - q) \div 2)
    IN  IF q >= r THEN r ELSE SqrtIter(x, y)

\* sqrtf(x)  (0 <= x < 1.9)
FSqrt(x) ==
    IF x = 0 THEN 0
    ELSE SqrtIter(x, IF x < 1000 THEN 1000000
                     ELSE IF x < 1000000 THEN 40000000
                     ELSE 1400000000)


(***************************************************************************)
(* The checkpoint file.                                                    *)
(***************************************************************************)
\* model_header[0] of a well-formed checkpoint
Magic == 20240326
\* model_header[1] of a well-formed checkpoint
Version == 3

\* model_header[0..7]; field k of the C array is named after what it carries
HeaderOf(magic, version, maxT, V, L, NH, C, Vp) ==
    [magic |-> magic, version |-> version, max_seq_len |-> maxT,
     vocab_size |-> V, num_layers |-> L, num_heads |-> NH, channels |-> C,
     padded_vocab_size |-> Vp]

(***************************************************************************)
(* Tensor layout planner.                                                  *)
(***************************************************************************)
NUM_PARAMETER_TENSORS == 16
NUM_ACTIVATION_TENSORS == 23

\* the ptrs[] array of malloc_and_point_parameters
ParamPtrs ==
    <<"wte", "wpe", "ln1w", "ln1b", "qkvw", "qkvb", "attprojw", "attprojb",
      "ln2w", "ln2b", "fcw", "fcb", "fcprojw", "fcprojb", "lnfw", "lnfb">>

\* the ptrs[] array of malloc_and_point_activations
ActPtrs ==
    <<"encoded", "ln1", "ln1_mean", "ln1_rstd", "qkv", "atty", "preatt", "att",
      "attproj", "residual2", "ln2", "ln2_mean", "ln2_rstd", "fch", "fch_gelu",
      "fcproj", "residual3", "lnf", "lnf_mean", "lnf_rstd", "logits", "probs",
      "losses">>

fill_in_parameter_sizes(config) ==
    LET Vp   == config.padded_vocab_size
        C    == config.channels
        maxT == config.max_seq_len
        L    == config.num_layers
    IN  << Vp * C,            \* wte
           maxT * C,          \* wpe
           L * C,             \* ln1w
           L * C,             \* ln1b
           L * (3 * C) * C,   \* qkvw
           L * (3 * C),       \* qkvb
           L * C * C,         \* attprojw
           L * C,             \* attprojb
           L * C,             \* ln2w
           L * C,             \* ln2b
           L * (4 * C) * C,   \* fcw
           L * (4 * C),       \* fcb
           L * C * (4 * C),   \* fcprojw
           L * C,             \* fcprojb
           C,                 \* lnfw
           C >>               \* lnfb

RECURSIVE IteratorAt_skips(_, _)
\* a pointing loop that advances the iterator by the size of the tensor it
\* is about to point, not by the size of the one it has just pointed
IteratorAt_skips(sizes, i) ==
    IF i = 0 THEN 0 ELSE IteratorAt_skips(sizes, i - 1) + At(sizes, i)

RECURSIVE IteratorAt(_, _)
\* the value of the memory iterator when the pointing loop reaches tensor i
\* (0-based): it starts at the buffer and advances by sizes[i] per tensor
IteratorAt(sizes, i) ==
    IF i = 0 THEN 0 ELSE IteratorAt(sizes, i - 1) + At(sizes, i - 1)

\* the tensor views: *(ptrs[i]) = iterator
PointTensors(ptrs, sizes, n) ==
    [name \in {ptrs[k] : k \in 1 .. n} |->
        LET i == CHOOSE k \in Range0(n) : At(ptrs, k) = name
        IN  IteratorAt(sizes, i)]

\* a freshly malloc'ed buffer of n floats: its contents are indeterminate,
\* which the tag Garbage stands for
Garbage == 0

Malloc(n) == [i \in 1 .. n |-> Garbage]

malloc_and_point_parameters(param_sizes) ==
    LET num_parameters == SumTo(param_sizes, NUM_PARAMETER_TENSORS)
    IN  [memory |-> Malloc(num_parameters),
         views  |-> PointTensors(ParamPtrs, param_sizes, NUM_PARAMETER_TENSORS)]

fill_in_activation_sizes(config, B, T) ==
    LET C  == config.channels
        NH == config.num_heads
        L  == config.num_layers
        Vp == config.padded_vocab_size
    IN  << B * T * C,           \* encoded
           L * B * T * C,       \* ln1
           L * B * T,           \* ln1_mean
           L * B * T,           \* ln1_rstd
           L * B * T * 3 * C,   \* qkv
           L * B * T * C,       \* atty
           L * B * NH * T * T,  \* preatt
           L * B * NH * T * T,  \* att
           L * B * T * C,       \* attproj
           L * B * T * C,       \* residual2
           L * B * T * C,       \* ln2
           L * B * T,           \* ln2_mean
           L * B * T,           \* ln2_rstd
           L * B * T * 4 * C,   \* fch
           L * B * T * 4 * C,   \* fch_gelu
           L * B * T * C,       \* fcproj
           L * B * T * C,       \* residual3
           B * T * C,           \* lnf
           B * T,               \* lnf_mean
           B * T,               \* lnf_rstd
           B * T * Vp,          \* logits
           B * T * Vp,          \* probs
           B * T >>             \* losses

malloc_and_point_activations(act_sizes) ==
    LET num_activations == SumTo(act_sizes, NUM_ACTIVATION_TENSORS)
    IN  [memory |-> Malloc(num_activations),
         views  |-> PointTensors(ActPtrs, act_sizes, NUM_ACTIVATION_TENSORS)]


(***************************************************************************)
(* State.                                                                  *)
(***************************************************************************)
VARIABLES
    header,              \* the 256-int header of the checkpoint file
    ckpt,                \* the value of the floats that follow the header
    heap,                \* the buffers whose allocation the system refuses
    model,               \* GPT2 model
    const_model,         \* GPT2Const const_model
    shadow_model,        \* GPT2 shadow_model
    const_shadow_model,  \* GPT2Const const_shadow_model
    proc,                \* "running", or how the process ended
    pc,                  \* where the caller of the library stands
    floats_read,         \* floats read after the header by the last build
    lp,                  \* the per-layer pointers gpt2_forward last computed
    fwd,                 \* the arguments of the gpt2_forward call in flight
    fpc,                 \* the next step of the gpt2_forward call in flight
    res,                 \* the float that the argument res points to
    trace,               \* the kernel calls the call in flight has made
    written,             \* the activation elements the call in flight wrote
    entry,               \* the state the call in flight was entered in
    flow,                \* the inputs each activation element is computed from
    upd,                 \* the gpt2_update call in flight and its loop index
    last,                \* the last element gpt2_update has updated
    ucount,              \* the gpt2_update calls and moment allocations so far
    main,                \* the locals of main()
    kern                 \* the kernel call that is run on its own

objVars == <<model, const_model, shadow_model, const_shadow_model>>

fwdVars == <<fwd, fpc, res, trace, written, entry, flow>>

updVars == <<upd, last, ucount>>

\* a GPT2 struct nobody has filled in yet
UnsetModel ==
    [param_sizes |-> NULL, params |-> NULL, params_memory |-> NULL,
     act_sizes |-> NULL, acts |-> NULL, acts_memory |-> NULL]

\* a GPT2Const struct nobody has filled in yet
UnsetConst ==
    [config |-> NULL, m_memory |-> NULL, v_memory |-> NULL,
     num_activations |-> 0, batch_size |-> 0, seq_len |-> 0,
     inputs |-> NULL, targets |-> NULL, mean_loss |-> 0,
     num_parameters |-> 0]

\* the "no loss" value -1.0f
NoLoss == 0 - Scale

(***************************************************************************)
(* gpt2_build_from_checkpoint                                              *)
(***************************************************************************)
\* the system refuses to allocate `buffer`: malloc and calloc return NULL,
\* and mallocCheck (llmc/utils.h) then prints a diagnostic and exits with
\* EXIT_FAILURE
Refused(buffer) == buffer \in heap

\* a build that checks the magic number only
BadHeader_magic(h) == h.magic # Magic

BadHeader(h) == h.magic # Magic \/ h.version # Version

\* the count of floats the build asks freadCheck for
CountParameters(param_sizes) == SumTo(param_sizes, NUM_PARAMETER_TENSORS)

\* freadCheck(memory, sizeof(float), n, model_file)
ReadFloats(memory, n) ==
    [i \in 1 .. Len(memory) |-> IF i <= n THEN ckpt ELSE memory[i]]

\* the structs after a build whose header was accepted, and the status of
\* the process: mallocCheck exits before params_memory is assigned
Built(h) ==
    LET config == [max_seq_len |-> h.max_seq_len, vocab_size |-> h.vocab_size,
                   num_layers |-> h.num_layers, num_heads |-> h.num_heads,
                   channels |-> h.channels,
                   padded_vocab_size |-> h.padded_vocab_size]
        param_sizes    == fill_in_parameter_sizes(config)
        num_parameters == CountParameters(param_sizes)
        mp             == malloc_and_point_parameters(param_sizes)
    IN  IF Refused("params_memory")
        THEN [m |-> [UnsetModel EXCEPT !.param_sizes = param_sizes],
              c |-> [UnsetConst EXCEPT !.config = config,
                                       !.num_parameters = num_parameters],
              read |-> 0, proc |-> "exit(EXIT_FAILURE)"]
        ELSE [m |-> [param_sizes |-> param_sizes, params |-> mp.views,
                     params_memory |-> ReadFloats(mp.memory, num_parameters),
                     act_sizes |-> NULL, acts |-> NULL, acts_memory |-> NULL],
              c |-> [config |-> config, m_memory |-> NULL, v_memory |-> NULL,
                     num_activations |-> 0, batch_size |-> 0, seq_len |-> 0,
                     inputs |-> NULL, targets |-> NULL, mean_loss |-> NoLoss,
                     num_parameters |-> num_parameters],
              read |-> num_parameters, proc |-> "running"]

(***************************************************************************)
(* gpt2_init                                                               *)
(***************************************************************************)
\* a gpt2_init that sizes the activations anew when (B,T) has changed
Inited_resizes(m, c, B, T) ==
    IF m.params_memory = NULL
    THEN [m |-> m, c |-> c, proc |-> "exit(1)"]
    ELSE IF m.acts_memory = NULL \/ B # c.batch_size \/ T # c.seq_len
    THEN LET act_sizes == fill_in_activation_sizes(c.config, B, T)
             ma        == malloc_and_point_activations(act_sizes)
         IN  [m |-> [m EXCEPT !.act_sizes = act_sizes, !.acts = ma.views,
                              !.acts_memory = ma.memory],
              c |-> [c EXCEPT !.batch_size = B, !.seq_len = T,
                              !.num_activations =
                                  SumTo(act_sizes, NUM_ACTIVATION_TENSORS),
                              !.inputs = [i \in 1 .. B * T |-> Garbage],
                              !.targets = [i \in 1 .. B * T |-> Garbage]],
              proc |-> "running"]
    ELSE [m |-> m, c |-> c, proc |-> "running"]

\* what gpt2_init(m, c, B, T) leaves: the structs and the process status.
\* Each of the three mallocCheck calls exits before its buffer is assigned.
Inited(m, c, B, T) ==
    IF m.params_memory = NULL
    THEN [m |-> m, c |-> c, proc |-> "exit(1)"]
    ELSE IF m.acts_memory = NULL
    THEN LET act_sizes == fill_in_activation_sizes(c.config, B, T)
             ma        == malloc_and_point_activations(act_sizes)
             sized     == [c EXCEPT !.batch_size = B, !.seq_len = T,
                                    !.num_activations =
                                        SumTo(act_sizes,
                                              NUM_ACTIVATION_TENSORS)]
             pointed   == [m EXCEPT !.act_sizes = act_sizes,
                                    !.acts = ma.views,
                                    !.acts_memory = ma.memory]
             cache     == [i \in 1 .. B * T |-> Garbage]
         IN  IF Refused("acts_memory")
             THEN [m |-> [m EXCEPT !.act_sizes = act_sizes], c |-> sized,
                   proc |-> "exit(EXIT_FAILURE)"]
             ELSE IF Refused("inputs")
             THEN [m |-> pointed, c |-> sized, proc |-> "exit(EXIT_FAILURE)"]
             ELSE IF Refused("targets")
             THEN [m |-> pointed, c |-> [sized EXCEPT !.inputs = cache],
                   proc |-> "exit(EXIT_FAILURE)"]
             ELSE [m |-> pointed,
                   c |-> [sized EXCEPT !.inputs = cache, !.targets = cache],
                   proc |-> "running"]
    ELSE IF B # c.batch_size \/ T # c.seq_len
    THEN [m |-> m, c |-> c, proc |-> "exit(EXIT_FAILURE)"]
    ELSE [m |-> m, c |-> c, proc |-> "running"]

(***************************************************************************)
(* gpt2_forward: the per-layer pointers of the layer loop                  *)
(***************************************************************************)
LayerParamPointers(params, l, C) ==
    [ ln1w     |-> params.ln1w + l * C,
      ln1b     |-> params.ln1b + l * C,
      qkvw     |-> params.qkvw + l * 3 * C * C,
      qkvb     |-> params.qkvb + l * 3 * C,
      attprojw |-> params.attprojw + l * C * C,
      attprojb |-> params.attprojb + l * C,
      ln2w     |-> params.ln2w + l * C,
      ln2b     |-> params.ln2b + l * C,
      fcw      |-> params.fcw + l * 4 * C * C,
      fcb      |-> params.fcb + l * 4 * C,
      fcprojw  |-> params.fcprojw + l * C * 4 * C,
      fcprojb  |-> params.fcprojb + l * C ]

LayerActPointers_heads(acts, l, B, T, C, NH) ==
    [ ln1       |-> acts.ln1 + l * B * T * C,
      ln1_mean  |-> acts.ln1_mean + l * B * T,
      ln1_rstd  |-> acts.ln1_rstd + l * B * T,
      qkv       |-> acts.qkv + l * B * T * 3 * C,
      atty      |-> acts.atty + l * B * T * C,
      preatt    |-> acts.preatt + l * B * T * T,
      att       |-> acts.att + l * B * T * T,
      attproj   |-> acts.attproj + l * B * T * C,
      residual2 |-> acts.residual2 + l * B * T * C,
      ln2       |-> acts.ln2 + l * B * T * C,
      ln2_mean  |-> acts.ln2_mean + l * B * T,
      ln2_rstd  |-> acts.ln2_rstd + l * B * T,
      fch       |-> acts.fch + l * B * T * 4 * C,
      fch_gelu  |-> acts.fch_gelu + l * B * T * 4 * C,
      fcproj    |-> acts.fcproj + l * B * T * C,
      residual3 |-> acts.residual3 + l * B * T * C ]

LayerActPointers(acts, l, B, T, C, NH) ==
    [ ln1       |-> acts.ln1 + l * B * T * C,
      ln1_mean  |-> acts.ln1_mean + l * B * T,
      ln1_rstd  |-> acts.ln1_rstd + l * B * T,
      qkv       |-> acts.qkv + l * B * T * 3 * C,
      atty      |-> acts.atty + l * B * T * C,
      preatt    |-> acts.preatt + l * B * NH * T * T,
      att       |-> acts.att + l * B * NH * T * T,
      attproj   |-> acts.attproj + l * B * T * C,
      residual2 |-> acts.residual2 + l * B * T * C,
      ln2       |-> acts.ln2 + l * B * T * C,
      ln2_mean  |-> acts.ln2_mean + l * B * T,
      ln2_rstd  |-> acts.ln2_rstd + l * B * T,
      fch       |-> acts.fch + l * B * T * 4 * C,
      fch_gelu  |-> acts.fch_gelu + l * B * T * 4 * C,
      fcproj    |-> acts.fcproj + l * B * T * C,
      residual3 |-> acts.residual3 + l * B * T * C ]

\* residual = (l == 0) ? acts.encoded : acts.residual3 + (l - 1) * B * T * C
\* a layer loop in which every layer reads the encoder output
LayerResidual_encoded(acts, l, B, T, C) == acts.encoded

LayerResidual(acts, l, B, T, C) ==
    IF l = 0 THEN acts.encoded ELSE acts.residual3 + (l - 1) * B * T * C

\* everything the layer loop computes before the kernels of layer l run
LayerPointers(params, acts, l, B, T, C, NH) ==
    [ l        |-> l,
      residual |-> LayerResidual(acts, l, B, T, C),
      p        |-> LayerParamPointers(params, l, C),
      a        |-> LayerActPointers(acts, l, B, T, C, NH) ]

(***************************************************************************)
(* The kernels: the elements each one writes, one set per output buffer,   *)
(* in the order of the kernel's output parameters.                         *)
(***************************************************************************)
encoder_forward(out, B, T, C) ==
    << { out + b * T * C + t * C + i :
            b \in Range0(B), t \in Range0(T), i \in Range0(C) } >>

layernorm_forward(out, mean, rstd, B, T, C) ==
    << { out + b * T * C + t * C + i :
            b \in Range0(B), t \in Range0(T), i \in Range0(C) },
       { mean + b * T + t : b \in Range0(B), t \in Range0(T) },
       { rstd + b * T + t : b \in Range0(B), t \in Range0(T) } >>

matmul_forward_naive(out, B, T, OC) ==
    << { out + (b * T + t) * OC + o :
            b \in Range0(B), t \in Range0(T), o \in Range0(OC) } >>

LOOP_UNROLL == 8

matmul_forward(out, B, T, OC) ==
    IF (B * T) % LOOP_UNROLL # 0
    THEN matmul_forward_naive(out, B, T, OC)
    ELSE << { out + (obt + ibt) * OC + o :
                obt \in { x \in Range0(B * T) : x % LOOP_UNROLL = 0 },
                ibt \in Range0(LOOP_UNROLL), o \in Range0(OC) } >>

attention_forward(out, preatt, att, B, T, C, NH) ==
    LET hs == C \div NH
    IN  << { out + b * T * C + t * C + h * hs + i :
                b \in Range0(B), t \in Range0(T), h \in Range0(NH),
                i \in Range0(hs) },
           UNION { { preatt + b * NH * T * T + h * T * T + t * T + t2 :
                        t2 \in 0 .. t } :
                   b \in Range0(B), t \in Range0(T), h \in Range0(NH) },
           { att + b * NH * T * T + h * T * T + t * T + t2 :
                b \in Range0(B), t \in Range0(T), h \in Range0(NH),
                t2 \in Range0(T) } >>

gelu_forward(out, N) == << { out + i : i \in Range0(N) } >>

residual_forward(out, N) == << { out + i : i \in Range0(N) } >>

softmax_forward(probs, B, T, V, Vp) ==
    << UNION { { probs + b * T * Vp + t * Vp + i : i \in Range0(V) }
                 \cup { probs + b * T * Vp + t * Vp + i : i \in V .. Vp - 1 } :
               b \in Range0(B), t \in Range0(T) } >>

crossentropy_forward(losses, B, T) ==
    << { losses + b * T + t : b \in Range0(B), t \in Range0(T) } >>

(***************************************************************************)
(* The kernels again: every store a kernel makes, with the elements read   *)
(* to compute the value stored.  `a` is the kernel's argument list, in     *)
(* which a pointer is a pair <<buffer, offset>>; a location <<k, x>> is    *)
(* offset x of the buffer the k-th argument points into.  A store belongs  *)
(* to one iteration `id` of the kernel's outer loop and to one pass of     *)
(* that iteration; `reads` are the locations whose values reach the stored *)
(* value, directly or through the locals of the iteration.                 *)
(***************************************************************************)
\* the locations at the offsets of S, reached through argument k
Through(k, S) == { <<k, x>> : x \in S }

\* the stores into the locations `at`, each computed from the reads `reads`
Stores(id, pass, at, reads) ==
    { [id |-> id, pass |-> pass, at |-> loc, reads |-> reads] : loc \in at }

\* encoder_forward(out, inp, wte, wpe, B, T, C) over the tokens of inp
encoder_forward_stores(a, tokens) ==
    LET out == a[1][2]  inp == a[2][2]  wte == a[3][2]  wpe == a[4][2]
        B == a[5]  T == a[6]  C == a[7]
    IN  UNION { Stores(<<b, t>>, 1,
                       { <<1, out + b * T * C + t * C + i>> },
                       { <<2, inp + b * T + t>>,
                         <<3, wte + At(tokens, b * T + t) * C + i>>,
                         <<4, wpe + t * C + i>> })
                : b \in Range0(B), t \in Range0(T), i \in Range0(C) }

\* a layernorm_forward that keeps one mean and one rstd per position t
layernorm_forward_stores_shared(a) ==
    LET out == a[1][2]  mean == a[2][2]  rstd == a[3][2]  inp == a[4][2]
        weight == a[5][2]  bias == a[6][2]
        B == a[7]  T == a[8]  C == a[9]
        x(b, t) == Through(4, { inp + b * T * C + t * C + i :
                                  i \in Range0(C) })
    IN  UNION { Stores(<<b, t>>, 1,
                       { <<1, out + b * T * C + t * C + i>> },
                       x(b, t) \cup { <<5, weight + i>>, <<6, bias + i>> })
                : b \in Range0(B), t \in Range0(T), i \in Range0(C) }
        \cup
        UNION { Stores(<<b, t>>, 1,
                       { <<2, mean + t>>, <<3, rstd + t>> },
                       x(b, t))
                : b \in Range0(B), t \in Range0(T) }

\* layernorm_forward(out, mean, rstd, inp, weight, bias, B, T, C)
layernorm_forward_stores(a) ==
    LET out == a[1][2]  mean == a[2][2]  rstd == a[3][2]  inp == a[4][2]
        weight == a[5][2]  bias == a[6][2]
        B == a[7]  T == a[8]  C == a[9]
        x(b, t) == Through(4, { inp + b * T * C + t * C + i :
                                  i \in Range0(C) })
    IN  UNION { Stores(<<b, t>>, 1,
                       { <<1, out + b * T * C + t * C + i>> },
                       x(b, t) \cup { <<5, weight + i>>, <<6, bias + i>> })
                : b \in Range0(B), t \in Range0(T), i \in Range0(C) }
        \cup
        UNION { Stores(<<b, t>>, 1,
                       { <<2, mean + b * T + t>>, <<3, rstd + b * T + t>> },
                       x(b, t))
                : b \in Range0(B), t \in Range0(T) }

\* a matmul whose every output row is computed from every input row
MatmulStore_rows(a, id, bt, o) ==
    Stores(id, 1, { <<1, a[1][2] + bt * a[8] + o>> },
           Through(2, { a[2][2] + x : x \in Range0(a[5] * a[6] * a[7]) })
             \cup Through(3, { a[3][2] + o * a[7] + i : i \in Range0(a[7]) }))

\* the store out[bt * OC + o] of either matmul, made by iteration id
MatmulStore(a, id, bt, o) ==
    LET out == a[1][2]  inp == a[2][2]  weight == a[3][2]
        C == a[7]  OC == a[8]
    IN  Stores(id, 1, { <<1, out + bt * OC + o>> },
               (IF a[4] = <<"NULL", 0>> THEN {} ELSE { <<4, a[4][2] + o>> })
                 \cup Through(2, { inp + bt * C + i : i \in Range0(C) })
                 \cup Through(3, { weight + o * C + i : i \in Range0(C) }))

\* matmul_forward_naive(out, inp, weight, bias, B, T, C, OC)
matmul_forward_naive_stores(a) ==
    UNION { MatmulStore(a, <<b, t>>, b * a[6] + t, o)
            : b \in Range0(a[5]), t \in Range0(a[6]), o \in Range0(a[8]) }

\* matmul_forward(out, inp, weight, bias, B, T, C, OC): the stores of the
\* strided loop over obt, or those of the naive loops
matmul_forward_stores(a) ==
    IF (a[5] * a[6]) % LOOP_UNROLL # 0
    THEN matmul_forward_naive_stores(a)
    ELSE UNION { MatmulStore(a, <<obt>>, obt + ibt, o)
                 : obt \in { x \in Range0(a[5] * a[6]) : x % LOOP_UNROLL = 0 },
                   ibt \in Range0(LOOP_UNROLL), o \in Range0(a[8]) }

\* attention_forward(out, preatt, att, inp, B, T, C, NH): pass 1 stores the
\* scores, pass 2 their exponentials, pass 3 the normalised weights and the
\* zeros of the mask, pass 4 clears the output slice and pass 5 accumulates
\* the weighted values into it
attention_forward_stores(a) ==
    LET out == a[1][2]  preatt == a[2][2]  att == a[3][2]  inp == a[4][2]
        B == a[5]  T == a[6]  C == a[7]  NH == a[8]
        C3 == C * 3
        hs == C \div NH
        I == Range0(hs)
        query_t(b, t, h)   == inp + b * T * C3 + t * C3 + h * hs
        key_t2(b, t2, h)   == inp + b * T * C3 + t2 * C3 + h * hs + C
        value_t2(b, t2, h) == inp + b * T * C3 + t2 * C3 + h * hs + C * 2
        preatt_bth(b, t, h) == preatt + b * NH * T * T + h * T * T + t * T
        att_bth(b, t, h)    == att + b * NH * T * T + h * T * T + t * T
        out_bth(b, t, h)    == out + b * T * C + t * C + h * hs
        scores(b, t, h) ==
            Through(2, { preatt_bth(b, t, h) + t2 : t2 \in 0 .. t })
        weights(b, t, h) ==
            Through(3, { att_bth(b, t, h) + t2 : t2 \in 0 .. t })
    IN  UNION {
          UNION { Stores(<<b, t, h>>, 1, { <<2, preatt_bth(b, t, h) + t2>> },
                         Through(4, { query_t(b, t, h) + i : i \in I })
                           \cup Through(4, { key_t2(b, t2, h) + i : i \in I }))
                    \cup Stores(<<b, t, h>>, 2,
                                { <<3, att_bth(b, t, h) + t2>> },
                                scores(b, t, h))
                    \cup Stores(<<b, t, h>>, 3,
                                { <<3, att_bth(b, t, h) + t2>> },
                                scores(b, t, h)
                                  \cup { <<3, att_bth(b, t, h) + t2>> })
                  : t2 \in 0 .. t }
            \cup Stores(<<b, t, h>>, 3,
                        Through(3, { att_bth(b, t, h) + t2 :
                                       t2 \in t + 1 .. T - 1 }), {})
            \cup UNION { Stores(<<b, t, h>>, 4,
                                { <<1, out_bth(b, t, h) + i>> }, {})
                           \cup Stores(<<b, t, h>>, 5,
                                       { <<1, out_bth(b, t, h) + i>> },
                                       { <<1, out_bth(b, t, h) + i>> }
                                         \cup weights(b, t, h)
                                         \cup Through(4,
                                                { value_t2(b, t2, h) + i :
                                                    t2 \in 0 .. t }))
                         : i \in I }
          : b \in Range0(B), t \in Range0(T), h \in Range0(NH) }

\* gelu_forward(out, inp, N)
gelu_forward_stores(a) ==
    UNION { Stores(<<i>>, 1, { <<1, a[1][2] + i>> }, { <<2, a[2][2] + i>> })
            : i \in Range0(a[3]) }

\* residual_forward(out, inp1, inp2, N)
residual_forward_stores(a) ==
    UNION { Stores(<<i>>, 1, { <<1, a[1][2] + i>> },
                   { <<2, a[2][2] + i>>, <<3, a[3][2] + i>> })
            : i \in Range0(a[4]) }

\* softmax_forward(probs, logits, B, T, V, Vp): pass 1 stores the
\* exponentials, pass 2 divides them by their sum, pass 3 clears the padding
softmax_forward_stores(a) ==
    LET probs == a[1][2]  logits == a[2][2]
        B == a[3]  T == a[4]  V == a[5]  Vp == a[6]
        logits_bt(b, t) == logits + b * T * Vp + t * Vp
        probs_bt(b, t)  == probs + b * T * Vp + t * Vp
    IN  UNION {
          UNION { Stores(<<b, t>>, 1, { <<1, probs_bt(b, t) + i>> },
                         Through(2, { logits_bt(b, t) + j : j \in Range0(V) }))
                    \cup Stores(<<b, t>>, 2, { <<1, probs_bt(b, t) + i>> },
                                Through(1, { probs_bt(b, t) + j :
                                               j \in Range0(V) }))
                  : i \in Range0(V) }
            \cup Stores(<<b, t>>, 3,
                        Through(1, { probs_bt(b, t) + i : i \in V .. Vp - 1 }),
                        {})
          : b \in Range0(B), t \in Range0(T) }

\* crossentropy_forward(losses, probs, targets, B, T, Vp) over the tokens of
\* targets
crossentropy_forward_stores(a, tokens) ==
    LET losses == a[1][2]  probs == a[2][2]  targets == a[3][2]
        B == a[4]  T == a[5]  Vp == a[6]
    IN  UNION { Stores(<<b, t>>, 1, { <<1, losses + b * T + t>> },
                       { <<3, targets + b * T + t>>,
                         <<2, probs + b * T * Vp + t * Vp
                                + At(tokens, b * T + t)>> })
                : b \in Range0(B), t \in Range0(T) }

\* the stores of the kernel call `call`, made with the given token arrays
StoresOf(call, inputs, targets) ==
    CASE call.kernel = "encoder_forward" ->
             encoder_forward_stores(call.args, inputs)
      [] call.kernel = "layernorm_forward" ->
             layernorm_forward_stores(call.args)
      [] call.kernel = "matmul_forward" -> matmul_forward_stores(call.args)
      [] call.kernel = "matmul_forward_naive" ->
             matmul_forward_naive_stores(call.args)
      [] call.kernel = "attention_forward" ->
             attention_forward_stores(call.args)
      [] call.kernel = "gelu_forward" -> gelu_forward_stores(call.args)
      [] call.kernel = "residual_forward" ->
             residual_forward_stores(call.args)
      [] call.kernel = "softmax_forward" -> softmax_forward_stores(call.args)
      [] call.kernel = "crossentropy_forward" ->
             crossentropy_forward_stores(call.args, targets)

\* the iterations of the outer loop of `call`: what each reads and writes
IterationsOf(call, inputs, targets) ==
    LET stores == StoresOf(call, inputs, targets)
    IN  { [id     |-> id,
           reads  |-> UNION { s.reads : s \in { x \in stores : x.id = id } },
           writes |-> { s.at : s \in { x \in stores : x.id = id } }]
          : id \in { s.id : s \in stores } }

(***************************************************************************)
(* gpt2_forward, one step per kernel call.                                 *)
(***************************************************************************)
\* an activation element written by a kernel holds the number of the tensor
\* the kernel was writing: its value is not modelled, except for the losses
Tag(name) == 1 + (CHOOSE k \in Range0(NUM_ACTIVATION_TENSORS) :
                     At(ActPtrs, k) = name)

\* mem after the kernel stored into sets[k] the tensor names[k], for each k
Store(mem, sets, names) ==
    [i \in 1 .. Len(mem) |->
        IF \E k \in 1 .. Len(sets) : (i - 1) \in sets[k]
        THEN Tag(names[CHOOSE k \in 1 .. Len(sets) : (i - 1) \in sets[k]])
        ELSE mem[i]]

\* pointers as the trace records them
InActs(off) == <<"acts", off>>
InParams(off) == <<"params", off>>
NullPtr == <<"NULL", 0>>

NoForward ==
    /\ fwd = NULL /\ fpc = "idle" /\ res = 0 /\ trace = <<>>
    /\ written = {} /\ entry = NULL /\ flow = NULL

\* flow after the kernel call `call` of the gpt2_forward call `f`: an element
\* the kernel stores is computed from what the elements its store reads were
\* computed from, a token read counting as itself; the passes of a kernel
\* follow one another
FlowAfter(call, f, deps) ==
    LET stores == StoresOf(call, f.inputs, f.targets)
        From(r, d) ==
            IF call.args[r[1]][1] = "inputs" THEN { r[2] }
            ELSE IF call.args[r[1]][1] = "acts" THEN d[r[2]]
            ELSE {}
        AfterPass(pass, d) ==
            LET made == { s \in stores : s.pass = pass }
                at   == { s.at[2] : s \in made }
            IN  [x \in DOMAIN d |->
                   IF x \in at
                   THEN UNION { From(r, d) :
                             r \in (CHOOSE s \in made : s.at[2] = x).reads }
                   ELSE d[x]]
        p1 == AfterPass(1, deps)
        p2 == AfterPass(2, p1)
        p3 == AfterPass(3, p2)
        p4 == AfterPass(4, p3)
    IN  IF call.kernel \in {"attention_forward", "softmax_forward"}
        THEN AfterPass(5, p4)
        ELSE p1

\* the kernel call `kernel(args)` of the call in flight, which stores into
\* sets[k] the tensor names[k]; the call goes on at `next`
KernelCall(kernel, args, sets, names, next) ==
    /\ model' = [model EXCEPT !.acts_memory =
                                  Store(model.acts_memory, sets, names)]
    /\ trace' = Append(trace, [kernel |-> kernel, args |-> args])
    /\ written' = written \cup UNION { sets[k] : k \in 1 .. Len(sets) }
    /\ flow' = FlowAfter([kernel |-> kernel, args |-> args], fwd, flow)
    /\ fpc' = next
    /\ UNCHANGED <<header, ckpt, heap,
                   kern, updVars, main, const_model, shadow_model,
                   const_shadow_model, proc, pc, floats_read, fwd, res, entry>>

\* a validation loop that looks at the inputs only
TokensInRange_inputs(call, V) ==
    \A i \in Range0(call.B * call.T) :
        0 <= At(call.inputs, i) /\ At(call.inputs, i) < V

\* assert(0 <= inputs[i] && inputs[i] < V), and the same of targets[i]
TokensInRange(call, V) ==
    \A i \in Range0(call.B * call.T) :
        /\ 0 <= At(call.inputs, i) /\ At(call.inputs, i) < V
        /\ call.targets # NULL =>
              0 <= At(call.targets, i) /\ At(call.targets, i) < V

\* the validation loop at the head of gpt2_forward: a failed assert aborts
Fwd_validate ==
    /\ proc = "running" /\ fpc = "validate"
    /\ IF TokensInRange(fwd, const_model.config.vocab_size)
       THEN fpc' = "encoder" /\ UNCHANGED proc
       ELSE proc' = "abort" /\ UNCHANGED fpc
    /\ UNCHANGED <<header, ckpt, heap, kern, updVars, main,
                   objVars, pc, floats_read, lp, fwd, res,
                   trace, written, entry, flow>>

\* the layer loop's test and pointer set-up for layer l
EnterLayer(l) ==
    IF l < const_model.config.num_layers
    THEN [lp |-> LayerPointers(model.params, model.acts, l, fwd.B, fwd.T,
                               const_model.config.channels,
                               const_model.config.num_heads),
          next |-> "ln1"]
    ELSE [lp |-> lp, next |-> "lnf"]

Fwd_encoder ==
    /\ proc = "running" /\ fpc = "encoder"
    /\ LET C == const_model.config.channels
       IN  KernelCall("encoder_forward",
                      <<InActs(model.acts.encoded), <<"inputs", 0>>,
                        InParams(model.params.wte),
                        InParams(model.params.wpe), fwd.B, fwd.T, C>>,
                      encoder_forward(model.acts.encoded, fwd.B, fwd.T, C),
                      <<"encoded">>, EnterLayer(0).next)
    /\ lp' = EnterLayer(0).lp

Fwd_ln1 ==
    /\ proc = "running" /\ fpc = "ln1"
    /\ LET C == const_model.config.channels
       IN  KernelCall("layernorm_forward",
                      <<InActs(lp.a.ln1), InActs(lp.a.ln1_mean),
                        InActs(lp.a.ln1_rstd), InActs(lp.residual),
                        InParams(lp.p.ln1w), InParams(lp.p.ln1b),
                        fwd.B, fwd.T, C>>,
                      layernorm_forward(lp.a.ln1, lp.a.ln1_mean,
                                        lp.a.ln1_rstd, fwd.B, fwd.T, C),
                      <<"ln1", "ln1_mean", "ln1_rstd">>, "qkv")
    /\ UNCHANGED lp

Fwd_qkv ==
    /\ proc = "running" /\ fpc = "qkv"
    /\ LET C == const_model.config.channels
       IN  KernelCall("matmul_forward",
                      <<InActs(lp.a.qkv), InActs(lp.a.ln1),
                        InParams(lp.p.qkvw), InParams(lp.p.qkvb),
                        fwd.B, fwd.T, C, 3 * C>>,
                      matmul_forward(lp.a.qkv, fwd.B, fwd.T, 3 * C),
                      <<"qkv">>, "attention")
    /\ UNCHANGED lp

Fwd_attention ==
    /\ proc = "running" /\ fpc = "attention"
    /\ LET C  == const_model.config.channels
           NH == const_model.config.num_heads
       IN  KernelCall("attention_forward",
                      <<InActs(lp.a.atty), InActs(lp.a.preatt),
                        InActs(lp.a.att), InActs(lp.a.qkv),
                        fwd.B, fwd.T, C, NH>>,
                      attention_forward(lp.a.atty, lp.a.preatt, lp.a.att,
                                        fwd.B, fwd.T, C, NH),
                      <<"atty", "preatt", "att">>, "attproj")
    /\ UNCHANGED lp

Fwd_attproj ==
    /\ proc = "running" /\ fpc = "attproj"
    /\ LET C == const_model.config.channels
       IN  KernelCall("matmul_forward",
                      <<InActs(lp.a.attproj), InActs(lp.a.atty),
                        InParams(lp.p.attprojw), InParams(lp.p.attprojb),
                        fwd.B, fwd.T, C, C>>,
                      matmul_forward(lp.a.attproj, fwd.B, fwd.T, C),
                      <<"attproj">>, "residual2")
    /\ UNCHANGED lp

Fwd_residual2 ==
    /\ proc = "running" /\ fpc = "residual2"
    /\ LET C == const_model.config.channels
       IN  KernelCall("residual_forward",
                      <<InActs(lp.a.residual2), InActs(lp.residual),
                        InActs(lp.a.attproj), fwd.B * fwd.T * C>>,
                      residual_forward(lp.a.residual2, fwd.B * fwd.T * C),
                      <<"residual2">>, "ln2")
    /\ UNCHANGED lp

Fwd_ln2 ==
    /\ proc = "running" /\ fpc = "ln2"
    /\ LET C == const_model.config.channels
       IN  KernelCall("layernorm_forward",
                      <<InActs(lp.a.ln2), InActs(lp.a.ln2_mean),
                        InActs(lp.a.ln2_rstd), InActs(lp.a.residual2),
                        InParams(lp.p.ln2w), InParams(lp.p.ln2b),
                        fwd.B, fwd.T, C>>,
                      layernorm_forward(lp.a.ln2, lp.a.ln2_mean,
                                        lp.a.ln2_rstd, fwd.B, fwd.T, C),
                      <<"ln2", "ln2_mean", "ln2_rstd">>, "fc")
    /\ UNCHANGED lp

Fwd_fc ==
    /\ proc = "running" /\ fpc = "fc"
    /\ LET C == const_model.config.channels
       IN  KernelCall("matmul_forward",
                      <<InActs(lp.a.fch), InActs(lp.a.ln2),
                        InParams(lp.p.fcw), InParams(lp.p.fcb),
                        fwd.B, fwd.T, C, 4 * C>>,
                      matmul_forward(lp.a.fch, fwd.B, fwd.T, 4 * C),
                      <<"fch">>, "gelu")
    /\ UNCHANGED lp

Fwd_gelu ==
    /\ proc = "running" /\ fpc = "gelu"
    /\ LET C == const_model.config.channels
       IN  KernelCall("gelu_forward",
                      <<InActs(lp.a.fch_gelu), InActs(lp.a.fch),
                        fwd.B * fwd.T * 4 * C>>,
                      gelu_forward(lp.a.fch_gelu, fwd.B * fwd.T * 4 * C),
                      <<"fch_gelu">>, "fcproj")
    /\ UNCHANGED lp

Fwd_fcproj ==
    /\ proc = "running" /\ fpc = "fcproj"
    /\ LET C == const_model.config.channels
       IN  KernelCall("matmul_forward",
                      <<InActs(lp.a.fcproj), InActs(lp.a.fch_gelu),
                        InParams(lp.p.fcprojw), InParams(lp.p.fcprojb),
                        fwd.B, fwd.T, 4 * C, C>>,
                      matmul_forward(lp.a.fcproj, fwd.B, fwd.T, C),
                      <<"fcproj">>, "residual3")
    /\ UNCHANGED lp

Fwd_residual3 ==
    /\ proc = "running" /\ fpc = "residual3"
    /\ LET C == const_model.config.channels
       IN  KernelCall("residual_forward",
                      <<InActs(lp.a.residual3), InActs(lp.a.residual2),
                        InActs(lp.a.fcproj), fwd.B * fwd.T * C>>,
                      residual_forward(lp.a.residual3, fwd.B * fwd.T * C),
                      <<"residual3">>, EnterLayer(lp.l + 1).next)
    /\ lp' = EnterLayer(lp.l + 1).lp

\* residual = acts.residual3 + (num_layers - 1) * B * T * channels
FinalResidual ==
    model.acts.residual3
        + (const_model.config.num_layers - 1) * fwd.B * fwd.T
            * const_model.config.channels

Fwd_lnf ==
    /\ proc = "running" /\ fpc = "lnf"
    /\ LET C == const_model.config.channels
       IN  KernelCall("layernorm_forward",
                      <<InActs(model.acts.lnf), InActs(model.acts.lnf_mean),
                        InActs(model.acts.lnf_rstd), InActs(FinalResidual),
                        InParams(model.params.lnfw),
                        InParams(model.params.lnfb), fwd.B, fwd.T, C>>,
                      layernorm_forward(model.acts.lnf, model.acts.lnf_mean,
                                        model.acts.lnf_rstd, fwd.B, fwd.T, C),
                      <<"lnf", "lnf_mean", "lnf_rstd">>, "logits")
    /\ UNCHANGED lp

Fwd_logits ==
    /\ proc = "running" /\ fpc = "logits"
    /\ LET C  == const_model.config.channels
           Vp == const_model.config.padded_vocab_size
       IN  KernelCall("matmul_forward",
                      <<InActs(model.acts.logits), InActs(model.acts.lnf),
                        InParams(model.params.wte), NullPtr,
                        fwd.B, fwd.T, C, Vp>>,
                      matmul_forward(model.acts.logits, fwd.B, fwd.T, Vp),
                      <<"logits">>, "softmax")
    /\ UNCHANGED lp

Fwd_softmax ==
    /\ proc = "running" /\ fpc = "softmax"
    /\ LET V  == const_model.config.vocab_size
           Vp == const_model.config.padded_vocab_size
       IN  KernelCall("softmax_forward",
                      <<InActs(model.acts.probs), InActs(model.acts.logits),
                        fwd.B, fwd.T, V, Vp>>,
                      softmax_forward(model.acts.probs, fwd.B, fwd.T, V, Vp),
                      <<"probs">>, "loss")
    /\ UNCHANGED lp

\* losses[b * T + t] = -logf(probs_bt[targets[b * T + t]]): the model does
\* not compute probabilities, and gives position j with target token tok a
\* loss that tells positions and tokens apart
LossValue(j, tok) == (1 + tok) * (Scale \div 64) + j * (Scale \div 128)

\* losses[0] + ... + losses[n - 1], added in that order
RECURSIVE SumLosses(_, _, _)
SumLosses(mem, losses, n) ==
    IF n = 0 THEN 0
    ELSE SumLosses(mem, losses, n - 1) + At(mem, losses + n - 1)

\* a loss branch that stores the sum of the losses
MeanOf_sum(sum, n) == sum

\* mean_loss / (B * T)
MeanOf(sum, n) == Sgn(sum) * (Abs(sum) \div n)

\* the loss branch of gpt2_forward and the store through res
Fwd_loss ==
    /\ proc = "running" /\ fpc = "loss"
    /\ IF fwd.targets # NULL
       THEN   LET Vp     == const_model.config.padded_vocab_size
                  losses == model.acts.losses
                  sets   == crossentropy_forward(losses, fwd.B, fwd.T)
                  mem    == [i \in 1 .. Len(model.acts_memory) |->
                               IF (i - 1) \in sets[1]
                               THEN LossValue(i - 1 - losses,
                                              At(fwd.targets, i - 1 - losses))
                               ELSE model.acts_memory[i]]
                  mean   == MeanOf(SumLosses(mem, losses, fwd.B * fwd.T),
                                   fwd.B * fwd.T)
              IN  /\ model' = [model EXCEPT !.acts_memory = mem]
                  /\ trace' = Append(trace,
                                [kernel |-> "crossentropy_forward",
                                 args |-> <<InActs(losses),
                                            InActs(model.acts.probs),
                                            <<"targets", 0>>,
                                            fwd.B, fwd.T, Vp>>])
                  /\ written' = written \cup sets[1]
                  /\ flow' = FlowAfter(
                                [kernel |-> "crossentropy_forward",
                                 args |-> <<InActs(losses),
                                            InActs(model.acts.probs),
                                            <<"targets", 0>>,
                                            fwd.B, fwd.T, Vp>>], fwd, flow)
                  /\ const_model' = [const_model EXCEPT !.mean_loss = mean]
                  /\ res' = mean
       ELSE /\ const_model' = [const_model EXCEPT !.mean_loss = NoLoss]
            /\ res' = NoLoss
            /\ UNCHANGED <<model, trace, written, flow>>
    /\ fpc' = "done"
    /\ UNCHANGED <<header, ckpt, heap, kern, updVars, main,
                   shadow_model, const_shadow_model, proc, pc,
                   floats_read, lp, fwd, entry>>

\* the state a call of gpt2_forward is entered in
EnterForward(B, T, inputs, targets, caller) ==
    /\ fwd' = [B |-> B, T |-> T, inputs |-> inputs, targets |-> targets,
               caller |-> caller]
    /\ fpc' = "validate"
    /\ trace' = <<>>
    /\ written' = {}
    /\ flow' = [x \in Range0(Len(model.acts_memory)) |-> {}]
    /\ entry' = [acts_memory |-> model.acts_memory,
                 mean_loss |-> const_model.mean_loss, res |-> res]

\* the caller's state once the call has returned
LeaveForward ==
    /\ fwd' = NULL /\ fpc' = "idle" /\ trace' = <<>> /\ written' = {}
    /\ entry' = NULL /\ flow' = NULL

(***************************************************************************)
(* gpt2_update, one step per element of the parameter buffer.              *)
(***************************************************************************)
\* m = beta1 * m_memory[i] + (1.0f - beta1) * grad
FirstMoment(beta1, m, grad) == FMul(beta1, m) + FMul(Scale - beta1, grad)

\* v = beta2 * v_memory[i] + (1.0f - beta2) * grad * grad
SecondMoment(beta2, v, grad) ==
    FMul(beta2, v) + FMul(FMul(Scale - beta2, grad), grad)

\* m_hat = m / (1.0f - powf(beta1, t)), and v_hat likewise
BiasCorrected(x, beta, t) == FDiv(x, Scale - FPow(beta, t))

\* learning_rate * (m_hat / (sqrtf(v_hat) + eps) + weight_decay * param)
UpdateOf(learning_rate, m_hat, v_hat, eps, weight_decay, param) ==
    FMul(learning_rate,
         FDiv(m_hat, FSqrt(v_hat) + eps) + FMul(weight_decay, param))

\* a step that adds the update to the parameter
Descend_adds(param, update) == param + update

\* model->params_memory[i] -= update
Descend(param, update) == param - update

\* a loop that leaves the gradient it has read in the shadow buffer
AfterRead_kept(grad) == grad

\* shadow_model->params_memory[i] = 0, once grad has been read
AfterRead(grad) == 0

\* a test that finds the moment buffers missing at every call
NeedsMoments_always(c) == TRUE

\* if (const_model->m_memory == NULL)
NeedsMoments(c) == c.m_memory = NULL

\* calloc(n, sizeof(float))
Calloc(n) == [i \in 1 .. n |-> 0]

NoUpdate ==
    /\ upd = NULL /\ last = NULL
    /\ ucount = [calls |-> 0, allocs |-> 0, stored |-> NULL]

\* the head of gpt2_update: the lazy allocation of the moment buffers; upd
\* records the arguments, the loop index i, how often the loop has read each
\* element of the shadow buffer, and the buffers the loop starts from
EnterUpdate(learning_rate, beta1, beta2, eps, weight_decay, t, caller) ==
    LET n == const_model.num_parameters
        c == IF NeedsMoments(const_model)
             THEN [const_model EXCEPT
                      !.m_memory = IF Refused("m_memory") THEN NULL
                                   ELSE Calloc(n),
                      !.v_memory = IF Refused("v_memory") THEN NULL
                                   ELSE Calloc(n)]
             ELSE const_model
    IN  /\ const_model' = c
        /\ upd' = [learning_rate |-> learning_rate, beta1 |-> beta1,
                   beta2 |-> beta2, eps |-> eps,
                   weight_decay |-> weight_decay, t |-> t, caller |-> caller,
                   i |-> 0, reads |-> [k \in 1 .. n |-> 0],
                   m_memory |-> c.m_memory, v_memory |-> c.v_memory,
                   grads |-> shadow_model.params_memory,
                   params |-> model.params_memory]
        /\ ucount' = [ucount EXCEPT
                        !.calls = @ + 1,
                        !.allocs = IF NeedsMoments(const_model)
                                   THEN @ + 1 ELSE @]

\* the body of the loop over the parameters, for element i. A moment buffer
\* that calloc did not provide is NULL, and m_memory[i] or v_memory[i] is
\* then an access through a null pointer: the process is killed by SIGSEGV
\* at the load, or the load goes through and the process runs on in a state
\* the language does not define ("undefined"), which is not followed further.
Upd_element ==
    /\ proc = "running" /\ upd # NULL /\ upd.i < const_model.num_parameters
    /\ LET i      == upd.i
           null   == NULL \in {const_model.m_memory, const_model.v_memory}
           param  == At(model.params_memory, i)
           grad   == At(shadow_model.params_memory, i)
           m      == FirstMoment(upd.beta1, At(const_model.m_memory, i), grad)
           v      == SecondMoment(upd.beta2, At(const_model.v_memory, i), grad)
           m_hat  == BiasCorrected(m, upd.beta1, upd.t)
           v_hat  == BiasCorrected(v, upd.beta2, upd.t)
           update == UpdateOf(upd.learning_rate, m_hat, v_hat, upd.eps,
                              upd.weight_decay, param)
       IN  /\ shadow_model' =
                 [shadow_model EXCEPT
                     !.params_memory = Put(@, i, AfterRead(grad))]
           /\ \E outcome \in IF null THEN {"SIGSEGV", "undefined"}
                              ELSE {"running"} :
                 proc' = outcome
           /\ IF null
              THEN UNCHANGED <<const_model, model, last, upd>>
              ELSE /\ const_model' =
                         [const_model EXCEPT !.m_memory = Put(@, i, m),
                                             !.v_memory = Put(@, i, v)]
                   /\ model' =
                         [model EXCEPT
                             !.params_memory =
                                 Put(@, i, Descend(param, update))]
                   /\ last' = [i |-> i, param |-> param, grad |-> grad,
                               m_memory |-> At(const_model.m_memory, i),
                               v_memory |-> At(const_model.v_memory, i),
                               m |-> m, v |-> v, update |-> update]
                   /\ upd' = [upd EXCEPT !.i = i + 1,
                                         !.reads = Put(@, i, At(@, i) + 1)]
    /\ UNCHANGED <<header, ckpt, heap, kern, const_shadow_model, pc,
                   floats_read, lp, fwdVars, ucount, main>>

\* the loop of gpt2_update has ended: the call returns, and the moments it
\* stored stay behind
LeaveUpdate ==
    /\ upd.i = const_model.num_parameters
    /\ upd' = NULL
    /\ ucount' = [ucount EXCEPT
                    !.stored = [m_memory |-> const_model.m_memory,
                                v_memory |-> const_model.v_memory]]

\* the state of the process when main() begins
ProcessStart ==
    /\ model = UnsetModel /\ const_model = UnsetConst
    /\ shadow_model = UnsetModel /\ const_shadow_model = UnsetConst
    /\ proc = "running" /\ pc = "start"
    /\ floats_read = 0
    /\ lp = NULL
    /\ main = NULL
    /\ kern = NULL
    /\ NoForward /\ NoUpdate

(***************************************************************************)
(* The caller's steps that every specification shares.                     *)
(***************************************************************************)
\* gpt2_build_from_checkpoint(&model, &const_model, path)
BuildModel ==
    /\ proc = "running" /\ pc = "start"
    /\ IF BadHeader(header)
       THEN /\ proc' = "exit(1)"
            /\ UNCHANGED <<model, const_model, floats_read, pc>>
       ELSE /\ model' = Built(header).m
            /\ const_model' = Built(header).c
            /\ floats_read' = Built(header).read
            /\ proc' = Built(header).proc
            /\ pc' = IF Built(header).proc = "running" THEN "built" ELSE pc
    /\ UNCHANGED <<header, ckpt, heap, kern, updVars, main,
                   shadow_model, const_shadow_model, lp, fwdVars>>

\* gpt2_init(&model, &const_model, B, T), on a model that has been built
\* or on one whose params_memory is still NULL
InitModel ==
    /\ proc = "running" /\ pc \in {"start", "built", "ready"} /\ fpc = "idle"
    /\ \E B \in 1 .. MaxBatch, T \in 1 .. MaxSeq :
          LET r == Inited(model, const_model, B, T)
          IN  /\ model' = r.m
              /\ const_model' = r.c
              /\ proc' = r.proc
              /\ pc' = IF r.proc = "running" THEN "ready" ELSE pc
    /\ UNCHANGED <<header, ckpt, heap, kern, updVars, main,
                   shadow_model, const_shadow_model,
                   floats_read, lp, fwdVars>>

\* gpt2_build_from_checkpoint(&shadow_model, &const_shadow_model, path), on
\* the file the model was built from
BuildShadow ==
    /\ proc = "running" /\ pc = "built"
    /\ IF BadHeader(header)
       THEN /\ proc' = "exit(1)"
            /\ UNCHANGED <<shadow_model, const_shadow_model, floats_read, pc>>
       ELSE /\ shadow_model' = Built(header).m
            /\ const_shadow_model' = Built(header).c
            /\ floats_read' = Built(header).read
            /\ proc' = Built(header).proc
            /\ pc' = IF Built(header).proc = "running" THEN "paired" ELSE pc
    /\ UNCHANGED <<header, ckpt, heap,
                   kern, updVars, main, model, const_model, lp,
                   fwdVars>>

\* the gradients the differentiation engine can find: element i of vector k
GradVectors == {1, 2}

GradValue(k, i) ==
    IF k = 1
    THEN (IF i % 2 = 0 THEN Scale \div 10 ELSE 0 - (Scale \div 20))
    ELSE 0 - 9 * (Scale \div 10)

\* the reverse pass of __enzyme_autodiff, which adds the gradient of the
\* loss to the shadow of the parameter buffer
Accumulated(memory, k) ==
    [i \in 1 .. Len(memory) |-> memory[i] + GradValue(k, i - 1)]

(***************************************************************************)
(* LayoutSpec: the layout planner applied to every small configuration.    *)
(***************************************************************************)
\* vocab_size ranges over 1..MaxVocab
MaxVocab == 2
\* num_heads ranges over 1..MaxHeads
MaxHeads == 2
\* channels is num_heads times a head size in 1..MaxHeadSize
MaxHeadSize == 2
\* padded_vocab_size is vocab_size, or vocab_size and one column of padding
Pads == {0, 1}

BadHeaders ==
    { HeaderOf(Magic + 1, Version, 1, 1, 1, 1, 1, 1),
      HeaderOf(Magic, Version + 1, 1, 1, 1, 1, 1, 1) }

LayoutHeaders ==
    { HeaderOf(Magic, Version, MaxSeq, V, L, NH, NH * hs, V + pad) :
        V \in 1 .. MaxVocab, L \in 1 .. MaxLayers,
        NH \in 1 .. MaxHeads, hs \in 1 .. MaxHeadSize, pad \in Pads }

\* the float every parameter has in the checkpoint file: 1.0f, or 0.5f
CkptValues == {Scale, Scale \div 2}

LayoutInit ==
    /\ header \in LayoutHeaders \cup BadHeaders
    /\ ckpt = Scale \div 2
    /\ heap = {}
    /\ ProcessStart

\* the layer loop of gpt2_forward computing the pointers of layer l, for a
\* call with the (B,T) the activations were sized with
AddressLayer ==
    /\ proc = "running" /\ pc = "ready" /\ fpc = "idle"
    /\ \E l \in Range0(const_model.config.num_layers) :
          lp' = LayerPointers(model.params, model.acts, l,
                              const_model.batch_size, const_model.seq_len,
                              const_model.config.channels,
                              const_model.config.num_heads)
    /\ UNCHANGED <<header, ckpt, heap, kern, updVars, main,
                   objVars, proc, pc, floats_read, fwdVars>>

LayoutNext == BuildModel \/ InitModel \/ AddressLayer

vars == <<header, ckpt, heap, objVars, proc, pc, floats_read, lp, fwdVars,
         updVars, kern, main>>

LayoutSpec == LayoutInit /\ [][LayoutNext]_vars

(***************************************************************************)
(* Spec: a caller of the forward-pass interface.  It builds the model,     *)
(* sizes the activations with gpt2_init, and calls gpt2_forward any number *)
(* of times, with or without targets, with a (B,T) that need not be the    *)
(* one given to gpt2_init and with tokens that need not be in range.       *)
(***************************************************************************)
\* two heads of one channel each, two tokens and one column of padding; and
\* a one-layer checkpoint of the same shape that has one position embedding
ForwardHeaders ==
    { HeaderOf(Magic, Version, MaxSeq, 2, L, 2, 2, 3) : L \in 1 .. MaxLayers }
      \cup { HeaderOf(Magic, Version, 1, 2, 1, 2, 2, 3) }

\* the token arrays of a call: one whose tokens are all in range, one whose
\* first token is negative and one whose last token is vocab_size
InRangeTokens(n, V) == [i \in 1 .. n |-> (i - 1) % V]

TokenArrays(n, V) ==
    { InRangeTokens(n, V),
      [InRangeTokens(n, V) EXCEPT ![1] = 0 - 1],
      [InRangeTokens(n, V) EXCEPT ![n] = V] }

ForwardInit ==
    /\ header \in ForwardHeaders
    /\ ckpt = Scale \div 2
    /\ heap = {}
    /\ ProcessStart

\* gpt2_forward(&model, &const_model, inputs, targets, B, T, &res), for a
\* batch of the sequence length the activations were sized with that has as
\* many rows as they were sized with, or fewer
CallForward ==
    /\ proc = "running" /\ pc = "ready" /\ fpc = "idle"
    /\ \E B \in 1 .. const_model.batch_size, T \in {const_model.seq_len} :
          \E inputs \in TokenArrays(B * T, const_model.config.vocab_size),
             targets \in {NULL} \cup
                         TokenArrays(B * T, const_model.config.vocab_size) :
                EnterForward(B, T, inputs, targets, "caller")
    /\ UNCHANGED <<header, ckpt, heap, kern, updVars, main,
                   objVars, proc, pc, floats_read, lp, res>>

\* the call returns to the caller
ReturnForward ==
    /\ proc = "running" /\ fpc = "done" /\ fwd.caller = "caller"
    /\ LeaveForward
    /\ UNCHANGED <<header, ckpt, heap, kern, updVars, main,
                   objVars, proc, pc, floats_read, lp, res>>

gpt2_forward ==
    \/ Fwd_validate \/ Fwd_encoder
    \/ Fwd_ln1 \/ Fwd_qkv \/ Fwd_attention \/ Fwd_attproj \/ Fwd_residual2
    \/ Fwd_ln2 \/ Fwd_fc \/ Fwd_gelu \/ Fwd_fcproj \/ Fwd_residual3
    \/ Fwd_lnf \/ Fwd_logits \/ Fwd_softmax \/ Fwd_loss

Next ==
    \/ BuildModel \/ InitModel
    \/ CallForward \/ gpt2_forward \/ ReturnForward

Spec == ForwardInit /\ [][Next]_vars

\* the same caller on a one-layer checkpoint whose three channels its two
\* heads do not divide: gpt2_build reads channels and num_heads from the
\* header without relating them, and attention_forward takes C / NH as the
\* head size
HeadsInit ==
    /\ header = HeaderOf(Magic, Version, MaxSeq, 2, 1, 2, 3, 3)
    /\ ckpt = Scale \div 2
    /\ heap = {}
    /\ ProcessStart

HeadsSpec == HeadsInit /\ [][Next]_vars

(***************************************************************************)
(* UpdateSpec: a caller of the optimizer.  It builds the model and its     *)
(* shadow, lets the differentiation engine accumulate a gradient into the  *)
(* shadow, and calls gpt2_update with the step number as t.                *)
(***************************************************************************)
\* gpt2_update is called at most MaxUpdates times
MaxUpdates == 3

\* the smallest model: one layer, one head, one channel, one token
UpdateHeaders == { HeaderOf(Magic, Version, 1, 1, 1, 1, 1, 1) }

\* the hyperparameters main() passes: 1e-4f, 0.9f, 0.999f, 1e-8f
LearningRate == Scale \div 10000
Beta1 == 9 * (Scale \div 10)
Beta2 == 999 * (Scale \div 1000)
Eps == Scale \div 100000000

\* the weight decays of a caller: 0.0f as in main(), and 0.01f
WeightDecays == {0, Scale \div 100}

UpdateInit ==
    /\ header \in UpdateHeaders
    /\ ckpt \in CkptValues
    /\ heap = {}
    /\ ProcessStart

\* __enzyme_autodiff(gpt2_forward, ...) as the optimizer's caller sees it
Differentiate ==
    /\ proc = "running" /\ pc = "paired" /\ ucount.calls < MaxUpdates
    /\ \E k \in GradVectors :
          shadow_model' =
              [shadow_model EXCEPT
                  !.params_memory = Accumulated(@, k)]
    /\ pc' = "grads"
    /\ UNCHANGED <<header, ckpt, heap, kern, updVars, main, model, const_model,
                   const_shadow_model, proc, floats_read, lp, fwdVars>>

\* gpt2_update(&model, &shadow_model, &const_model, ..., t)
CallUpdate ==
    /\ proc = "running" /\ pc = "grads"
    /\ \E weight_decay \in WeightDecays :
          EnterUpdate(LearningRate, Beta1, Beta2, Eps, weight_decay,
                      ucount.calls + 1, "caller")
    /\ pc' = "updating"
    /\ UNCHANGED <<header, ckpt, heap, kern, last, main, model, shadow_model,
                   const_shadow_model, proc, floats_read, lp, fwdVars>>

\* the call returns to the caller
ReturnUpdate ==
    /\ proc = "running" /\ pc = "updating" /\ upd # NULL
    /\ upd.caller = "caller"
    /\ LeaveUpdate
    /\ pc' = "paired"
    /\ UNCHANGED <<header, ckpt, heap,
                   kern, last, main, objVars, proc, floats_read, lp,
                   fwdVars>>

UpdateNext ==
    \/ BuildModel \/ BuildShadow
    \/ Differentiate \/ CallUpdate \/ Upd_element \/ ReturnUpdate

UpdateSpec == UpdateInit /\ [][UpdateNext]_vars

(***************************************************************************)
(* TrainSpec: main(), with its literals scaled down.                       *)
(***************************************************************************)
\* the loop runs for step = 0 .. MaxStep  (main: 40)
MaxStep == 2
\* the validation loss is estimated every ValEvery steps  (main: 10)
ValEvery == 2
\* text is generated every GenEvery steps after step 0  (main: 20)
GenEvery == 2
\* val_num_batches  (main: 5)
ValBatches == 2
\* genT  (main: 64)
GenT == 3
\* B  (main: 4)
TrainB == 2
\* T  (main: 64)
TrainT == 2

\* a checkpoint of one layer, one head, one channel and two tokens
TrainHeaders == { HeaderOf(Magic, Version, TrainT, 2, 1, 1, 1, 2) }

TrainInit ==
    /\ header \in TrainHeaders
    /\ ckpt \in CkptValues
    /\ heap = {}
    /\ ProcessStart

\* the batch the dataloader yields: B * T in-range inputs, and as targets
\* the inputs shifted by one token
BatchInputs == InRangeTokens(TrainB * TrainT, const_model.config.vocab_size)

BatchTargets ==
    [i \in 1 .. TrainB * TrainT |-> i % const_model.config.vocab_size]

\* tokenizer.eot_token: the last token of the vocabulary
EotToken == const_model.config.vocab_size - 1

\* the indices sample_mult(probabilities, n, coin) can return
sample_mult(n) == Range0(n)

\* gpt2_init(&model, &const_model, B, T)
Main_init_model ==
    /\ proc = "running" /\ pc = "paired"
    /\ LET r == Inited(model, const_model, TrainB, TrainT)
       IN  model' = r.m /\ const_model' = r.c /\ proc' = r.proc
    /\ pc' = "inited"
    /\ UNCHANGED <<header, ckpt, heap, kern, updVars, main, shadow_model,
                   const_shadow_model, floats_read, lp, fwdVars>>

\* gpt2_init(&shadow_model, &const_shadow_model, B, T), and the locals main
\* sets up before the training loop
Main_init_shadow ==
    /\ proc = "running" /\ pc = "inited"
    /\ LET r == Inited(shadow_model, const_shadow_model, TrainB, TrainT)
       IN  /\ shadow_model' = r.m /\ const_shadow_model' = r.c
           /\ proc' = r.proc
    /\ main' = [step |-> 0, i |-> 0, t |-> 0, val_loss |-> 0,
                gen_tokens |-> [k \in 1 .. TrainB * TrainT |-> Garbage]]
    /\ pc' = "val"
    /\ UNCHANGED <<header, ckpt, heap,
                   kern, updVars, model, const_model, floats_read,
                   lp, fwdVars>>

\* the validation loop calls gpt2_forward on the next validation batch
Main_val_forward ==
    /\ proc = "running" /\ pc = "val"
    /\ main.step % ValEvery = 0 /\ main.i < ValBatches
    /\ EnterForward(TrainB, TrainT, BatchInputs, BatchTargets, "val")
    /\ res' = 0
    /\ main' = [main EXCEPT !.val_loss = IF main.i = 0 THEN 0 ELSE @]
    /\ pc' = "val_forward"
    /\ UNCHANGED <<header, ckpt, heap,
                   kern, updVars, objVars, proc, floats_read, lp>>

\* val_loss += const_model.mean_loss
Main_val_return ==
    /\ proc = "running" /\ fpc = "done" /\ fwd.caller = "val"
    /\ LeaveForward
    /\ main' = [main EXCEPT !.val_loss = @ + const_model.mean_loss,
                            !.i = @ + 1]
    /\ pc' = "val"
    /\ UNCHANGED <<header, ckpt, heap,
                   kern, updVars, objVars, proc, floats_read, lp,
                   res>>

\* the validation loop is over, or this step has none
Main_val_end ==
    /\ proc = "running" /\ pc = "val"
    /\ main.step % ValEvery # 0 \/ main.i >= ValBatches
    /\ main' = [main EXCEPT !.i = 0,
                            !.val_loss = IF main.step % ValEvery = 0
                                         THEN MeanOf(@, ValBatches) ELSE @]
    /\ pc' = "gen"
    /\ UNCHANGED <<header, ckpt, heap,
                   kern, updVars, objVars, proc, floats_read, lp,
                   fwdVars>>

\* step > 0 && step % 20 == 0
Generates(step) == step > 0 /\ step % GenEvery = 0

\* gen_tokens is filled with the end-of-text token
Main_gen_begin ==
    /\ proc = "running" /\ pc = "gen" /\ Generates(main.step)
    /\ main' = [main EXCEPT
                  !.gen_tokens = [k \in 1 .. TrainB * TrainT |-> EotToken],
                  !.t = 1]
    /\ pc' = "gen_loop"
    /\ UNCHANGED <<header, ckpt, heap,
                   kern, updVars, objVars, proc, floats_read, lp,
                   fwdVars>>

\* this step generates nothing
Main_gen_skip ==
    /\ proc = "running" /\ pc = "gen" /\ ~Generates(main.step)
    /\ pc' = "train"
    /\ UNCHANGED <<header, ckpt, heap,
                   kern, updVars, main, objVars, proc, floats_read,
                   lp, fwdVars>>

\* gpt2_forward(&model, &const_model, gen_tokens, NULL, B, T, &res)
Main_gen_forward ==
    /\ proc = "running" /\ pc = "gen_loop" /\ main.t < GenT
    /\ EnterForward(TrainB, TrainT, main.gen_tokens, NULL, "gen")
    /\ res' = 0
    /\ pc' = "gen_forward"
    /\ UNCHANGED <<header, ckpt, heap,
                   kern, updVars, main, objVars, proc, floats_read,
                   lp>>

\* gen_tokens[t] = sample_mult(probs, vocab_size, coin)
Main_gen_sample ==
    /\ proc = "running" /\ fpc = "done" /\ fwd.caller = "gen"
    /\ LeaveForward
    /\ \E next_token \in sample_mult(const_model.config.vocab_size) :
          main' = [main EXCEPT
                     !.gen_tokens = Put(@, main.t, next_token),
                     !.t = @ + 1]
    /\ pc' = "gen_loop"
    /\ UNCHANGED <<header, ckpt, heap,
                   kern, updVars, objVars, proc, floats_read, lp,
                   res>>

\* the generation loop is over
Main_gen_end ==
    /\ proc = "running" /\ pc = "gen_loop" /\ main.t >= GenT
    /\ pc' = "train"
    /\ UNCHANGED <<header, ckpt, heap,
                   kern, updVars, main, objVars, proc, floats_read,
                   lp, fwdVars>>

\* __enzyme_autodiff(gpt2_forward, ...) begins: the forward pass of the
\* training batch runs first
Main_autodiff ==
    /\ proc = "running" /\ pc = "train"
    /\ EnterForward(TrainB, TrainT, BatchInputs, BatchTargets, "autodiff")
    /\ res' = 0
    /\ pc' = "differentiating"
    /\ UNCHANGED <<header, ckpt, heap,
                   kern, updVars, main, objVars, proc, floats_read,
                   lp>>

\* the reverse pass adds the gradient to the shadow parameters
Main_autodiff_reverse ==
    /\ proc = "running" /\ fpc = "done" /\ fwd.caller = "autodiff"
    /\ LeaveForward
    /\ \E k \in GradVectors :
          shadow_model' =
              [shadow_model EXCEPT !.params_memory = Accumulated(@, k)]
    /\ pc' = "update"
    /\ UNCHANGED <<header, ckpt, heap, kern, updVars, main, model, const_model,
                   const_shadow_model, proc, floats_read, lp, res>>

\* a gpt2_update that may begin while the differentiation call is running
Main_update_early ==
    /\ proc = "running" /\ pc \in {"update", "differentiating"}
    /\ EnterUpdate(LearningRate, Beta1, Beta2, Eps, 0, main.step + 1, "main")
    /\ pc' = "updating"
    /\ UNCHANGED <<header, ckpt, heap, kern, last, main, model, shadow_model,
                   const_shadow_model, proc, floats_read, lp, fwdVars>>

\* gpt2_update(&model, &shadow_model, &const_model, 1e-4f, 0.9f, 0.999f,
\*             1e-8f, 0.0f, step+1)
Main_update ==
    /\ proc = "running" /\ pc = "update"
    /\ EnterUpdate(LearningRate, Beta1, Beta2, Eps, 0, main.step + 1, "main")
    /\ pc' = "updating"
    /\ UNCHANGED <<header, ckpt, heap, kern, last, main, model, shadow_model,
                   const_shadow_model, proc, floats_read, lp, fwdVars>>

\* gpt2_update returns and the step ends
Main_update_return ==
    /\ proc = "running" /\ pc = "updating" /\ upd # NULL
    /\ upd.caller = "main"
    /\ LeaveUpdate
    /\ main' = [main EXCEPT !.step = @ + 1]
    /\ pc' = IF main.step + 1 <= MaxStep THEN "val" ELSE "end"
    /\ UNCHANGED <<header, ckpt, heap,
                   kern, last, objVars, proc, floats_read, lp,
                   fwdVars>>

TrainNext ==
    \/ BuildModel \/ BuildShadow \/ Main_init_model \/ Main_init_shadow
    \/ Main_val_forward \/ Main_val_return \/ Main_val_end
    \/ Main_gen_begin \/ Main_gen_skip \/ Main_gen_forward
    \/ Main_gen_sample \/ Main_gen_end
    \/ Main_autodiff \/ gpt2_forward \/ Main_autodiff_reverse
    \/ Main_update \/ Upd_element \/ Main_update_return

TrainSpec == TrainInit /\ [][TrainNext]_vars

\* main on a system that provides every buffer, or refuses one of those
\* main asks for: params_memory (malloc_and_point_parameters), acts_memory,
\* inputs and targets (gpt2_init), m_memory and v_memory (gpt2_update)
AllocInit ==
    /\ header \in TrainHeaders
    /\ ckpt \in CkptValues
    /\ heap \in {{}} \cup { {buffer} : buffer \in
                   {"params_memory", "acts_memory", "inputs", "targets",
                    "m_memory", "v_memory"} }
    /\ ProcessStart

AllocSpec == AllocInit /\ [][TrainNext]_vars


(***************************************************************************)
(* The kernels once more: the values one iteration of a kernel's outer     *)
(* loop stores.  A float is an integer count of units of 1/Q; a product or *)
(* a quotient is rounded towards zero to a whole unit.                     *)
(***************************************************************************)
Q == 10000

\* x * y of two floats, computed so that no intermediate exceeds 32 bits
MulQ(x, y) ==
    LET xh == Abs(x) \div Q  xl == Abs(x) % Q
        yh == Abs(y) \div Q  yl == Abs(y) % Q
    IN  Sgn(x) * Sgn(y)
          * (xh * yh * Q + xh * yl + xl * yh + (xl * yl) \div Q)

\* expf(x) for x <= 0: exactly zero where a float underflows (below -104),
\* otherwise e^x, read from a table of e^0 .. e^-9 and interpolated, and
\* never less than one unit
ExpQ(x) ==
    LET table == <<10000, 3679, 1353, 498, 183, 67, 25, 9, 3, 1>>
        e(n)  == IF n < 10 THEN table[n + 1] ELSE 1
        n     == (0 - x) \div Q
        f     == (0 - x) % Q
        y     == e(n) - ((e(n) - e(n + 1)) * f) \div Q
    IN  IF x < (0 - 104) * Q THEN 0 ELSE IF y < 1 THEN 1 ELSE y

\* 1.0 / sqrtf(hs) for a head size of 1 .. 4
InvSqrtQ(hs) == <<10000, 7071, 5774, 5000>>[hs]

\* the largest of the numbers of S
MaxOf(S) == CHOOSE m \in S : \A x \in S : x <= m

\* mem after the stores f[x] at the offsets x of DOMAIN f
Stored(mem, f) ==
    [j \in 1 .. Len(mem) |-> IF (j - 1) \in DOMAIN f THEN f[j - 1] ELSE mem[j]]

\* the locals maxval and expsum of the iteration (b, t, h) of
\* attention_forward once pass 2 has ended
attention_forward_normaliser(a, mem, b, t, h) ==
    LET inp == a[4][2]  T == a[6]  C == a[7]  NH == a[8]
        C3 == C * 3
        hs == C \div NH
        query_t    == inp + b * T * C3 + t * C3 + h * hs
        key_t2(t2) == inp + b * T * C3 + t2 * C3 + h * hs + C
        val(t2) == MulQ(SumTo([i \in 1 .. hs |->
                                  MulQ(At(mem, query_t + i - 1),
                                       At(mem, key_t2(t2) + i - 1))], hs),
                        InvSqrtQ(hs))
        maxval  == MaxOf({ (0 - 10000) * Q } \cup { val(t2) : t2 \in 0 .. t })
    IN  [maxval |-> maxval,
         expsum |-> SumTo([k \in 1 .. t + 1 |-> ExpQ(val(k - 1) - maxval)],
                          t + 1)]

\* the iteration (b, t, h) of attention_forward(out, preatt, att, inp,
\* B, T, C, NH) on the buffer mem all four pointers point into
attention_forward_iteration(a, mem, b, t, h) ==
    LET out == a[1][2]  preatt == a[2][2]  att == a[3][2]  inp == a[4][2]
        T == a[6]  C == a[7]  NH == a[8]
        C3 == C * 3
        hs == C \div NH
        scale == InvSqrtQ(hs)
        query_t      == inp + b * T * C3 + t * C3 + h * hs
        key_t2(t2)   == inp + b * T * C3 + t2 * C3 + h * hs + C
        value_t2(t2) == inp + b * T * C3 + t2 * C3 + h * hs + C * 2
        preatt_bth == preatt + b * NH * T * T + h * T * T + t * T
        att_bth    == att + b * NH * T * T + h * T * T + t * T
        out_bth    == out + b * T * C + t * C + h * hs
        \* pass 1
        val(t2) == MulQ(SumTo([i \in 1 .. hs |->
                                  MulQ(At(mem, query_t + i - 1),
                                       At(mem, key_t2(t2) + i - 1))], hs),
                        scale)
        maxval  == attention_forward_normaliser(a, mem, b, t, h).maxval
        \* pass 2
        expv(t2)   == ExpQ(val(t2) - maxval)
        expsum     == attention_forward_normaliser(a, mem, b, t, h).expsum
        expsum_inv == IF expsum = 0 THEN 0 ELSE (Q * Q) \div expsum
        \* pass 3
        weight(t2) == IF t2 <= t THEN MulQ(expv(t2), expsum_inv) ELSE 0
        \* pass 4
        acc(i) == SumTo([k \in 1 .. t + 1 |->
                           MulQ(weight(k - 1), At(mem, value_t2(k - 1) + i))],
                        t + 1)
    IN  Stored(Stored(Stored(mem,
                   [x \in { preatt_bth + t2 : t2 \in 0 .. t } |->
                       val(x - preatt_bth)]),
                   [x \in { att_bth + t2 : t2 \in Range0(T) } |->
                       weight(x - att_bth)]),
                   [x \in { out_bth + i : i \in Range0(hs) } |->
                       acc(x - out_bth)])

\* NaN, the quotient 0.0f / 0.0f
NaN == 0 - 1000000000

\* the iteration (b, t) of softmax_forward(probs, logits, B, T, V, Vp) on the
\* buffer mem both pointers point into
softmax_forward_iteration(a, mem, b, t) ==
    LET probs == a[1][2]  logits == a[2][2]
        T == a[4]  V == a[5]  Vp == a[6]
        logits_bt == logits + b * T * Vp + t * Vp
        probs_bt  == probs + b * T * Vp + t * Vp
        maxval  == MaxOf({ (0 - 10000) * Q }
                           \cup { At(mem, logits_bt + i) : i \in Range0(V) })
        expv(i) == ExpQ(At(mem, logits_bt + i) - maxval)
        sum     == SumTo([k \in 1 .. V |-> expv(k - 1)], V)
        prob(i) == IF i >= V THEN 0
                   ELSE IF sum = 0 THEN NaN
                   ELSE (expv(i) * Q) \div sum
    IN  Stored(mem, [x \in { probs_bt + i : i \in Range0(Vp) } |->
                        prob(x - probs_bt)])

\* the iteration (b, t) of matmul_forward_naive(out, inp, weight, bias,
\* B, T, C, OC), out and inp pointing into mem, weight and bias into params
matmul_forward_naive_iteration(a, mem, params, b, t) ==
    LET out == a[1][2]  inp == a[2][2]  weight == a[3][2]  bias == a[4]
        T == a[6]  C == a[7]  OC == a[8]
        bt == b * T + t
        val(o) == (IF bias # NullPtr THEN At(params, bias[2] + o) ELSE 0)
                    + SumTo([k \in 1 .. C |->
                               MulQ(At(mem, inp + bt * C + k - 1),
                                    At(params, weight + o * C + k - 1))], C)
    IN  Stored(mem, [x \in { out + bt * OC + o : o \in Range0(OC) } |->
                        val(x - out - bt * OC)])

\* the strided loop of matmul_forward with result[ibt] = 0.0f to begin with
matmul_forward_iteration_nobias(a, mem, params, obt) ==
    LET out == a[1][2]  inp == a[2][2]  weight == a[3][2]
        C == a[7]  OC == a[8]
        result(ibt, o) ==
            SumTo([k \in 1 .. C |->
                      MulQ(At(mem, inp + (obt + ibt) * C + k - 1),
                           At(params, weight + (k - 1) + o * C))], C)
    IN  Stored(mem, [x \in { out + (obt + ibt) * OC + o :
                              ibt \in Range0(LOOP_UNROLL), o \in Range0(OC) }
                       |-> result((x - out) \div OC - obt, (x - out) % OC)])

\* the iteration obt of the strided loop of matmul_forward: result[ibt] for
\* the LOOP_UNROLL rows from obt on, for every o, and the write back
matmul_forward_iteration(a, mem, params, obt) ==
    LET out == a[1][2]  inp == a[2][2]  weight == a[3][2]  bias == a[4]
        C == a[7]  OC == a[8]
        result(ibt, o) ==
            (IF bias # NullPtr THEN At(params, bias[2] + o) ELSE 0)
              + SumTo([k \in 1 .. C |->
                         MulQ(At(mem, inp + (obt + ibt) * C + k - 1),
                              At(params, weight + (k - 1) + o * C))], C)
    IN  Stored(mem, [x \in { out + (obt + ibt) * OC + o :
                              ibt \in Range0(LOOP_UNROLL), o \in Range0(OC) }
                       |-> result((x - out) \div OC - obt, (x - out) % OC)])

\* sample_mult with `return n` in the place of `return n - 1`
sample_mult_past(mem, probabilities, n, coin) ==
    LET cdf(i) == IF \E j \in 0 .. i : At(mem, probabilities + j) = NaN
                  THEN NaN
                  ELSE SumTo([k \in 1 .. i + 1 |->
                                At(mem, probabilities + k - 1)], i + 1)
        hits   == { i \in Range0(n) : cdf(i) # NaN /\ coin < cdf(i) }
        first  == CHOOSE i \in hits : \A j \in hits : i <= j
    IN  IF hits # {}
        THEN [index |-> first, reads |-> { probabilities + j : j \in 0 .. first }]
        ELSE [index |-> n, reads |-> { probabilities + j : j \in Range0(n) }]

\* sample_mult(probabilities, n, coin) on the buffer mem that probabilities
\* points into: the index returned and the offsets read.  cdf(i) is cdf
\* after i + 1 additions; a NaN stays NaN and compares false.
sample_mult_from(mem, probabilities, n, coin) ==
    LET cdf(i) == IF \E j \in 0 .. i : At(mem, probabilities + j) = NaN
                  THEN NaN
                  ELSE SumTo([k \in 1 .. i + 1 |->
                                At(mem, probabilities + k - 1)], i + 1)
        hits   == { i \in Range0(n) : cdf(i) # NaN /\ coin < cdf(i) }
        first  == CHOOSE i \in hits : \A j \in hits : i <= j
    IN  IF hits # {}
        THEN [index |-> first, reads |-> { probabilities + j : j \in 0 .. first }]
        ELSE [index |-> n - 1,
              reads |-> { probabilities + j : j \in Range0(n) }]

\* the iteration `id` of a kernel whose arithmetic is not modelled
\* (encoder_forward, layernorm_forward, crossentropy_forward): each store of
\* the iteration puts in place a checksum of the values it reads
checksum_iteration(k, id) ==
    LET made == { s \in StoresOf(k.call, k.tokens, k.tokens) : s.id = id }
        value(r) ==
            IF k.call.args[r[1]][1] = "acts" THEN At(k.acts, r[2])
            ELSE IF k.call.args[r[1]][1] = "params" THEN At(k.params, r[2])
            ELSE At(k.tokens, r[2])
        RECURSIVE sum(_)
        sum(R) ==
            IF R = {} THEN 0
            ELSE LET r == CHOOSE x \in R : TRUE
                 IN  ((r[1] * 7 + r[2] + 1) * (value(r) % 9973)
                        + sum(R \ {r})) % 9973
    IN  Stored(k.acts,
               [x \in { s.at[2] : s \in made } |->
                   sum((CHOOSE s \in made : s.at[2] = x).reads)])

\* what one iteration `id` of the outer loop of `k.call` makes of k.acts
IterationOf(k, id) ==
    CASE k.call.kernel = "attention_forward" ->
             attention_forward_iteration(k.call.args, k.acts,
                                         id[1], id[2], id[3])
      [] k.call.kernel = "softmax_forward" ->
             softmax_forward_iteration(k.call.args, k.acts, id[1], id[2])
      [] k.call.kernel = "matmul_forward_naive" ->
             matmul_forward_naive_iteration(k.call.args, k.acts, k.params,
                                            id[1], id[2])
      [] k.call.kernel = "matmul_forward" ->
             IF Len(id) = 2
             THEN matmul_forward_naive_iteration(k.call.args, k.acts,
                                                 k.params, id[1], id[2])
             ELSE matmul_forward_iteration(k.call.args, k.acts, k.params,
                                           id[1])
      [] OTHER -> checksum_iteration(k, id)

(***************************************************************************)
(* KernelSpec: one kernel call on buffers of its own, its outer-loop       *)
(* iterations run one at a time in any order.                              *)
(***************************************************************************)
\* a kernel call has at most MaxIterations outer-loop iterations
MaxIterations == 4

\* the ways a buffer of n floats is filled before the call: with -1, 0 and 1;
\* with the multiples of 0.5 from -1 to 1; with +128 and -128; with -20000
Filling(k, n) ==
    [j \in 1 .. n |->
        CASE k = 1 -> (((j - 1) % 3) - 1) * Q
          [] k = 2 -> ((j - 1) % 5) * (Q \div 2) - Q
          [] k = 3 -> IF (j - 1) % 3 = 0 THEN 128 * Q ELSE (0 - 128) * Q
          [] k = 4 -> (0 - 20000) * Q]

\* the kernel calls that have not begun: each on a buffer that holds its
\* input, filled, and then its outputs, which hold one third before the call
KernelCalls ==
    LET Unwritten(n) == [j \in 1 .. n |-> Q \div 3]
        Call(kernel, args, acts, params, tokens) ==
            [call |-> [kernel |-> kernel, args |-> args], acts |-> acts,
             params |-> params, tokens |-> tokens, done |-> {}, entry |-> acts,
             sampled |-> NULL]
        \* attention_forward on a (B,T,3C) buffer, then preatt, att and out
        attention ==
            { LET B == sh[1]  T == sh[2]  NH == sh[3]  C == sh[3] * sh[4]
                  inp == 0
                  preatt == B * T * 3 * C
                  att == preatt + B * NH * T * T
                  out == att + B * NH * T * T
              IN  Call("attention_forward",
                       <<InActs(out), InActs(preatt), InActs(att),
                         InActs(inp), B, T, C, NH>>,
                       Filling(sh[5], preatt)
                         \o Unwritten(2 * B * NH * T * T + B * T * C),
                       <<>>, <<>>)
              : sh \in { x \in (1 .. MaxBatch) \X (1 .. MaxSeq)
                                 \X (1 .. MaxHeads) \X (1 .. MaxHeadSize)
                                 \X (1 .. 3) :
                           x[1] * x[2] * x[3] <= MaxIterations } }
        \* softmax_forward on (B,T,Vp) logits, then probs
        softmax ==
            { LET B == sh[1]  T == sh[2]  V == sh[3]  Vp == sh[3] + sh[4]
              IN  Call("softmax_forward",
                       <<InActs(B * T * Vp), InActs(0), B, T, V, Vp>>,
                       Filling(sh[5], B * T * Vp) \o Unwritten(B * T * Vp),
                       <<>>, <<>>)
              : sh \in { x \in (1 .. MaxBatch) \X (1 .. MaxSeq)
                                 \X (1 .. MaxVocab) \X (0 .. 1) \X (1 .. 4) :
                           x[1] * x[2] <= MaxIterations } }
        \* either matmul on a (B,T,C) input, then out; on a (OC,C) weight,
        \* then the bias, if there is one
        matmul ==
            { LET B == sh[2]  T == sh[3]  C == sh[4]  OC == sh[5]
              IN  Call(sh[1],
                       <<InActs(B * T * C), InActs(0), InParams(0),
                         IF sh[6] = 1 THEN InParams(OC * C) ELSE NullPtr,
                         B, T, C, OC>>,
                       Filling(sh[7], B * T * C) \o Unwritten(B * T * OC),
                       Filling(2, OC * C + OC), <<>>)
              : sh \in { x \in {"matmul_forward", "matmul_forward_naive"}
                                 \X (1 .. MaxBatch) \X {1, 3, LOOP_UNROLL}
                                 \X (1 .. 2) \X (1 .. 2) \X (0 .. 1)
                                 \X (1 .. 3) :
                           IF x[1] = "matmul_forward"
                                /\ (x[2] * x[3]) % LOOP_UNROLL = 0
                           THEN (x[2] * x[3]) \div LOOP_UNROLL <= MaxIterations
                           ELSE x[2] * x[3] <= MaxIterations } }
        \* the token arrays of n tokens below V that a call is given
        Tokens(n, V) == { [j \in 1 .. n |-> (j + k) % V] : k \in 0 .. 1 }
        \* encoder_forward on the (V,C) wte and the (T,C) wpe
        encoder ==
            { LET B == sh[1]  T == sh[2]  C == sh[3]
              IN  Call("encoder_forward",
                       <<InActs(0), <<"inputs", 0>>, InParams(0),
                         InParams(MaxVocab * C), B, T, C>>,
                       Unwritten(B * T * C),
                       Filling(2, MaxVocab * C + T * C), tokens)
              : sh \in { x \in (1 .. MaxBatch) \X (1 .. MaxSeq) \X (1 .. 2) :
                           x[1] * x[2] <= MaxIterations },
                tokens \in Tokens(MaxBatch * MaxSeq, MaxVocab) }
        \* layernorm_forward on a (B,T,C) input, then out, mean and rstd
        layernorm ==
            { LET B == sh[1]  T == sh[2]  C == sh[3]
              IN  Call("layernorm_forward",
                       <<InActs(B * T * C), InActs(2 * B * T * C),
                         InActs(2 * B * T * C + B * T), InActs(0),
                         InParams(0), InParams(C), B, T, C>>,
                       Filling(sh[4], B * T * C)
                         \o Unwritten(B * T * C + 2 * B * T),
                       Filling(2, 2 * C), <<>>)
              : sh \in { x \in (1 .. MaxBatch) \X (1 .. MaxSeq) \X (1 .. 2)
                                 \X (1 .. 2) :
                           x[1] * x[2] <= MaxIterations } }
        \* crossentropy_forward on (B,T,Vp) probs, then losses
        crossentropy ==
            { LET B == sh[1]  T == sh[2]  Vp == MaxVocab + sh[3]
              IN  Call("crossentropy_forward",
                       <<InActs(B * T * Vp), InActs(0), <<"targets", 0>>,
                         B, T, Vp>>,
                       Filling(2, B * T * Vp) \o Unwritten(B * T),
                       <<>>, tokens)
              : sh \in { x \in (1 .. MaxBatch) \X (1 .. MaxSeq) \X (0 .. 1) :
                           x[1] * x[2] <= MaxIterations },
                tokens \in Tokens(MaxBatch * MaxSeq, MaxVocab) }
    IN  attention \cup softmax \cup matmul \cup encoder \cup layernorm
          \cup crossentropy

KernelInit ==
    /\ header \in UpdateHeaders
    /\ ckpt \in CkptValues
    /\ heap = {}
    /\ model = UnsetModel /\ const_model = UnsetConst
    /\ shadow_model = UnsetModel /\ const_shadow_model = UnsetConst
    /\ proc = "running" /\ pc = "start"
    /\ floats_read = 0 /\ lp = NULL /\ main = NULL
    /\ NoForward /\ NoUpdate
    /\ kern \in KernelCalls

\* one more iteration of the outer loop of the call runs to its end
Kernel_iteration ==
    /\ \E it \in IterationsOf(kern.call, kern.tokens, kern.tokens) :
          /\ it.id \notin kern.done
          /\ kern' = [kern EXCEPT !.acts = IterationOf(kern, it.id),
                                  !.done = @ \cup {it.id}]
    /\ UNCHANGED <<header, ckpt, heap,
                   objVars, proc, pc, floats_read, lp, fwdVars,
                   updVars, main>>

\* the caller of softmax_forward samples from a row of batch 0, as main()
\* does: probs = acts.probs + (t-1) * Vp, a coin of [0,1), and
\* next_token = sample_mult(probs, V, coin)
Kernel_sample ==
    /\ kern.call.kernel = "softmax_forward"
    /\ kern.done = { it.id : it \in IterationsOf(kern.call, kern.tokens,
                                                  kern.tokens) }
    /\ kern.sampled = NULL
    /\ \E t \in Range0(kern.call.args[4]), coin \in {0, Q \div 2, Q - 1} :
          LET probs == kern.call.args[1][2] + t * kern.call.args[6]
              s     == sample_mult_from(kern.acts, probs, kern.call.args[5],
                                        coin)
          IN  kern' = [kern EXCEPT !.sampled =
                         [probs |-> probs, coin |-> coin,
                          next_token |-> s.index, reads |-> s.reads]]
    /\ UNCHANGED <<header, ckpt, heap,
                   objVars, proc, pc, floats_read, lp, fwdVars,
                   updVars, main>>

KernelNext == Kernel_iteration \/ Kernel_sample

KernelSpec == KernelInit /\ [][KernelNext]_vars


(***************************************************************************)
(* CLAIMS                                                                  *)
(***************************************************************************)
\* the index of tensor `name` in a ptrs[] array (0-based)
IndexOf(ptrs, name) == CHOOSE k \in Range0(Len(ptrs)) : At(ptrs, k) = name

\* the size of tensor `name`
SizeOf(ptrs, sizes, name) == At(sizes, IndexOf(ptrs, name))

\* the elements lo .. lo+n-1 and the elements lo2 .. lo2+n2-1 share none
Apart(lo, n, lo2, n2) == n = 0 \/ n2 = 0 \/ lo + n <= lo2 \/ lo2 + n2 <= lo

\* the elements lo .. lo+n-1 all lie among lo2 .. lo2+n2-1
Inside(lo, n, lo2, n2) == lo2 <= lo /\ lo + n <= lo2 + n2

\* the views named by ptrs are pairwise disjoint and cover elements 0..len-1:
\* they lie in the buffer, share no element, and their sizes add up to len
Tiles(views, ptrs, sizes, len) ==
    /\ \A i \in Range0(Len(ptrs)) :
          Inside(views[At(ptrs, i)], At(sizes, i), 0, len)
    /\ \A i, j \in Range0(Len(ptrs)) :
          i # j => Apart(views[At(ptrs, i)], At(sizes, i),
                         views[At(ptrs, j)], At(sizes, j))
    /\ SumTo(sizes, Len(ptrs)) = len

\* the order in which claim C1 lists the parameter tensors
C1_Order ==
    <<"wte", "wpe", "ln1w", "ln1b", "qkvw", "qkvb", "attprojw", "attprojb",
      "ln2w", "ln2b", "fcw", "fcb", "fcprojw", "fcprojb", "lnfw", "lnfb">>

\* C1: once a model is built, its 16 parameter views tile the parameter
\* buffer: view i starts at the sum of sizes 0..i-1 in the order wte, wpe,
\* ln1w, ln1b, qkvw, qkvb, attprojw, attprojb, ln2w, ln2b, fcw, fcb, fcprojw,
\* fcprojb, lnfw, lnfb, no two views overlap, and the sum of the 16 sizes is
\* the length of the allocated buffer and the number of floats the build
\* read from the file after the header (num_parameters).
C1_ParamViewsTile ==
    model.params_memory # NULL =>
        LET sizes == model.param_sizes
            total == SumTo(sizes, NUM_PARAMETER_TENSORS)
        IN  /\ sizes = fill_in_parameter_sizes(const_model.config)
            /\ DOMAIN model.params = { C1_Order[k] : k \in 1 .. 16 }
            /\ \A i \in Range0(16) :
                  model.params[At(C1_Order, i)] = SumTo(sizes, i)
            /\ Tiles(model.params, C1_Order, sizes, total)
            /\ total = Len(model.params_memory)
            /\ total = floats_read
            /\ total = const_model.num_parameters

\* a built model with several layers and heads, whose tensors differ in size
C1_Witness ==
    /\ pc = "built" /\ floats_read > 0
    /\ const_model.config.num_layers = MaxLayers
    /\ const_model.config.channels = MaxHeads * MaxHeadSize
    /\ const_model.config.padded_vocab_size > const_model.config.vocab_size

\* the length of the block of tensor `name` that a layer is handed: one
\* L-th of the tensor
C2_BlockLen(sizes, ptrs, name) ==
    SizeOf(ptrs, sizes, name) \div const_model.config.num_layers

\* C2: once the activations are allocated for (B,T), the 23 activation
\* views tile one buffer whose length is the sum of the activation sizes;
\* and the block gpt2_forward addresses in layer l for each per-layer
\* parameter and activation tensor lies inside the tensor's own view and is
\* disjoint from the block of every other layer.
C2_ActViewsTileAndLayerBlocks ==
    /\ model.acts_memory # NULL =>
          /\ model.act_sizes =
                fill_in_activation_sizes(const_model.config,
                                         const_model.batch_size,
                                         const_model.seq_len)
          /\ Len(model.acts_memory)
                = SumTo(model.act_sizes, NUM_ACTIVATION_TENSORS)
          /\ Tiles(model.acts, ActPtrs, model.act_sizes,
                   Len(model.acts_memory))
    /\ lp # NULL =>
          LET B  == const_model.batch_size
              T  == const_model.seq_len
              C  == const_model.config.channels
              NH == const_model.config.num_heads
              other(l) == LayerPointers(model.params, model.acts, l,
                                        B, T, C, NH)
          IN  /\ \A name \in DOMAIN lp.p :
                    LET n == C2_BlockLen(model.param_sizes, ParamPtrs, name)
                    IN  /\ n > 0
                        /\ Inside(lp.p[name], n, model.params[name],
                                  SizeOf(ParamPtrs, model.param_sizes, name))
                        /\ \A l \in Range0(const_model.config.num_layers) :
                              l # lp.l =>
                                Apart(lp.p[name], n, other(l).p[name], n)
              /\ \A name \in DOMAIN lp.a :
                    LET n == C2_BlockLen(model.act_sizes, ActPtrs, name)
                    IN  /\ n > 0
                        /\ Inside(lp.a[name], n, model.acts[name],
                                  SizeOf(ActPtrs, model.act_sizes, name))
                        /\ \A l \in Range0(const_model.config.num_layers) :
                              l # lp.l =>
                                Apart(lp.a[name], n, other(l).a[name], n)

\* the last layer of a several-layer model addressed for a batch of several
\* rows and positions
C2_Witness ==
    /\ lp # NULL /\ lp.l = MaxLayers - 1 /\ lp.l > 0
    /\ const_model.batch_size = MaxBatch /\ const_model.seq_len = MaxSeq
    /\ const_model.config.num_heads = MaxHeads


\* C17: gpt2_build_from_checkpoint exits with status 1 when header[0] is
\* not 20240326 or header[1] is not 3, and has then allocated no parameter
\* buffer and set no config field; otherwise it sets the six config fields
\* from header[2..7] and leaves no activation buffer, no moment buffers,
\* batch_size = seq_len = 0 and mean_loss = -1.0.
C17_BuildChecksHeader ==
    /\ (header.magic # 20240326 \/ header.version # 3) =>
          /\ pc = "start"
          /\ proc \in {"running", "exit(1)"}
          /\ model = UnsetModel /\ const_model = UnsetConst
    /\ (header.magic = 20240326 /\ header.version = 3 /\ pc = "built") =>
                /\ const_model.config
                     = [max_seq_len |-> header.max_seq_len,
                        vocab_size |-> header.vocab_size,
                        num_layers |-> header.num_layers,
                        num_heads |-> header.num_heads,
                        channels |-> header.channels,
                        padded_vocab_size |-> header.padded_vocab_size]
                /\ model.params_memory # NULL
                /\ model.acts_memory = NULL
                /\ const_model.m_memory = NULL /\ const_model.v_memory = NULL
                /\ const_model.batch_size = 0 /\ const_model.seq_len = 0
                /\ const_model.mean_loss = 0 - Scale

\* a build has exited on a header whose magic number is right and whose
\* version is not
C17_Witness ==
    /\ proc = "exit(1)" /\ pc = "start"
    /\ header.magic = 20240326 /\ header.version # 3

\* what a call gpt2_init(&model, &const_model, B, T) made in this state
\* would leave, for every (B,T) of the bounds
C18_EveryCall ==
    \A B \in 1 .. MaxBatch, T \in 1 .. MaxSeq :
        LET r == Inited(model, const_model, B, T)
        IN  IF model.params_memory = NULL
            THEN r = [m |-> model, c |-> const_model, proc |-> "exit(1)"]
            ELSE IF model.acts_memory = NULL
            THEN /\ r.proc = "running"
                 /\ r.c.batch_size = B /\ r.c.seq_len = T
                 /\ Len(r.m.acts_memory) = r.c.num_activations
                 /\ r.c.num_activations
                      = SumTo(fill_in_activation_sizes(const_model.config,
                                                       B, T),
                              NUM_ACTIVATION_TENSORS)
                 /\ Len(r.c.inputs) = B * T /\ Len(r.c.targets) = B * T
            ELSE IF B = const_model.batch_size /\ T = const_model.seq_len
            THEN r = [m |-> model, c |-> const_model, proc |-> "running"]
            ELSE r = [m |-> model, c |-> const_model,
                      proc |-> "exit(EXIT_FAILURE)"]

\* what a step does to the buffers of gpt2_init and to the recorded (B,T)
C18_EveryStep ==
    /\ model.acts_memory # NULL =>
          /\ model'.acts_memory = model.acts_memory
          /\ model'.acts = model.acts /\ model'.act_sizes = model.act_sizes
          /\ const_model'.inputs = const_model.inputs
          /\ const_model'.targets = const_model.targets
          /\ const_model'.batch_size = const_model.batch_size
          /\ const_model'.seq_len = const_model.seq_len
          /\ proc' \in {proc, "exit(EXIT_FAILURE)"}
    /\ (model.acts_memory = NULL /\ model'.acts_memory # NULL) =>
          /\ model.params_memory # NULL
          /\ const_model.inputs = NULL /\ const_model.targets = NULL
          /\ const_model'.inputs # NULL /\ const_model'.targets # NULL
          /\ Len(const_model'.inputs)
               = const_model'.batch_size * const_model'.seq_len
    /\ (model.params_memory = NULL /\ model'.params_memory = NULL) =>
          /\ model' = model /\ const_model' = const_model
          /\ proc' \in {proc, "exit(1)"}

\* C18: over any sequence of gpt2_init calls, the activation buffer and the
\* input and target caches are allocated once, by the first call on a built
\* model, which records its (B,T); a later call with the same (B,T) changes
\* nothing, a later call with another B or T exits with EXIT_FAILURE and
\* neither reallocates nor changes the recorded batch_size and seq_len; and
\* a call on a model without a parameter buffer exits with status 1.
C18_InitAllocatesOnce == [] C18_EveryCall /\ [][C18_EveryStep]_vars

\* a second call with another (B,T) has exited and the buffer of the first
\* call is still the one the model has
C18_Witness ==
    /\ proc = "exit(EXIT_FAILURE)" /\ pc = "ready"
    /\ model.acts_memory # NULL
    /\ Len(const_model.inputs) = const_model.batch_size * const_model.seq_len

(***************************************************************************)
(* Claims about gpt2_forward, checked under Spec.                          *)
(***************************************************************************)
\* a call of gpt2_forward has been entered and has not yet returned
InCall == fwd # NULL

\* the ten kernels of a layer in the order the claim gives, each with the
\* tensor it produces
C3_LayerOrder ==
    << <<"layernorm_forward", "ln1">>, <<"matmul_forward", "qkv">>,
       <<"attention_forward", "atty">>, <<"matmul_forward", "attproj">>,
       <<"residual_forward", "residual2">>, <<"layernorm_forward", "ln2">>,
       <<"matmul_forward", "fch">>, <<"gelu_forward", "fch_gelu">>,
       <<"matmul_forward", "fcproj">>, <<"residual_forward", "residual3">> >>

\* the k-th kernel call (from 1) of a forward pass over L layers
C3_Expected(k, L) ==
    IF k = 1 THEN <<"encoder_forward", "encoded">>
    ELSE IF k <= 1 + 10 * L THEN C3_LayerOrder[((k - 2) % 10) + 1]
    ELSE IF k = 2 + 10 * L THEN <<"layernorm_forward", "lnf">>
    ELSE IF k = 3 + 10 * L THEN <<"matmul_forward", "logits">>
    ELSE IF k = 4 + 10 * L THEN <<"softmax_forward", "probs">>
    ELSE <<"crossentropy_forward", "losses">>

\* the number of kernel calls of a forward pass over L layers
C3_Length(L, withTargets) == 4 + 10 * L + (IF withTargets THEN 1 ELSE 0)

\* the pointer p points into the view of activation tensor `name`
C3_PointsInto(p, name) ==
    /\ p[1] = "acts"
    /\ model.acts[name] <= p[2]
    /\ p[2] < model.acts[name] + SizeOf(ActPtrs, model.act_sizes, name)

\* C3: at every point of every gpt2_forward call the kernel calls made so
\* far are the first calls of one fixed sequence that depends on the number
\* of layers and on whether targets were supplied, never on token values:
\* encoder; per layer layernorm, QKV matmul, attention, attention-projection
\* matmul, residual add, layernorm, MLP-expand matmul, GELU, MLP-contract
\* matmul, residual add; then final layernorm, the output matmul with wte
\* and no bias, softmax, and cross-entropy only with targets.  A returned
\* call has made all of them.  Layer 0 takes its residual input from the
\* encoder output and layer l > 0 from the residual3 block layer l-1 wrote;
\* the final layernorm reads the residual3 block of layer L-1.
C3_KernelOrder ==
    InCall =>
      LET L == const_model.config.num_layers
          n == C3_Length(L, fwd.targets # NULL)
      IN  /\ Len(trace) <= n
          /\ fpc = "done" => Len(trace) = n
          /\ \A k \in 1 .. Len(trace) :
                /\ trace[k].kernel = C3_Expected(k, L)[1]
                /\ C3_PointsInto(trace[k].args[1], C3_Expected(k, L)[2])
          /\ \A l \in Range0(L) :
                LET input == IF l = 0 THEN InActs(model.acts.encoded)
                             ELSE trace[1 + 10 * l].args[1]
                IN  /\ Len(trace) >= 2 + 10 * l =>
                          trace[2 + 10 * l].args[4] = input
                    /\ Len(trace) >= 6 + 10 * l =>
                          trace[6 + 10 * l].args[2] = input
          /\ Len(trace) >= 2 + 10 * L =>
                trace[2 + 10 * L].args[4] = trace[1 + 10 * L].args[1]
          /\ Len(trace) >= 3 + 10 * L =>
                /\ trace[3 + 10 * L].args[3] = InParams(model.params.wte)
                /\ trace[3 + 10 * L].args[4] = NullPtr

\* a call with targets over more than one layer has run all its kernels
C3_Witness ==
    /\ InCall /\ fpc = "done" /\ fwd.targets # NULL
    /\ const_model.config.num_layers > 1
    /\ Len(trace) = 5 + 10 * const_model.config.num_layers

\* some token of the call lies outside [0, vocab_size)
C4_OutOfRange ==
    \E i \in Range0(fwd.B * fwd.T) :
        \/ At(fwd.inputs, i) < 0
        \/ At(fwd.inputs, i) >= const_model.config.vocab_size
        \/ /\ fwd.targets # NULL
           /\ \/ At(fwd.targets, i) < 0
              \/ At(fwd.targets, i) >= const_model.config.vocab_size

\* the call in flight has changed nothing that gpt2_forward writes
C4_Untouched ==
    /\ trace = <<>> /\ written = {}
    /\ model.acts_memory = entry.acts_memory
    /\ const_model.mean_loss = entry.mean_loss
    /\ res = entry.res

\* C4: a gpt2_forward call with an input token, or with a supplied target
\* token, outside [0, vocab_size) never gets past its validation and ends in
\* an abort: no kernel runs, and the activation buffer, mean_loss and *res
\* keep the values they had when the call was entered.
C4_BadTokensAbortUntouched ==
    (InCall /\ C4_OutOfRange) =>
        /\ fpc = "validate"
        /\ proc \in {"running", "abort"}
        /\ C4_Untouched

\* the call aborted on a bad target although its inputs were all in range
C4_Witness ==
    /\ InCall /\ proc = "abort" /\ fwd.targets # NULL
    /\ \A i \in Range0(fwd.B * fwd.T) :
          0 <= At(fwd.inputs, i)
            /\ At(fwd.inputs, i) < const_model.config.vocab_size
    /\ C4_OutOfRange
    /\ \E i \in 1 .. Len(entry.acts_memory) : entry.acts_memory[i] # Garbage

\* the (B,T) of the call in flight are not the (B,T) gpt2_init was given
C5_Mismatch ==
    fwd.B # const_model.batch_size \/ fwd.T # const_model.seq_len

\* C5 as the specification states it: a gpt2_forward call whose (B,T) differ
\* from the (B,T) given to gpt2_init runs no kernel and writes no element of
\* the activation buffer.
C5_MismatchRunsNoKernel ==
    (InCall /\ C5_Mismatch) => (trace = <<>> /\ written = {})

\* C10: when a gpt2_forward call has completed, *res equals mean_loss; with
\* targets this value is the sum of the B*T elements of the losses view
\* divided by B*T; without targets it is -1.0 and the call has written no
\* element of the losses view, whatever an earlier call left in mean_loss.
C10_ResultIsMeanLoss ==
    (InCall /\ fpc = "done") =>
        /\ res = const_model.mean_loss
        /\ fwd.targets # NULL =>
              res = SumLosses(model.acts_memory, model.acts.losses,
                              fwd.B * fwd.T) \div (fwd.B * fwd.T)
        /\ fwd.targets = NULL =>
              /\ res = 0 - Scale
              /\ \A i \in Range0(SizeOf(ActPtrs, model.act_sizes, "losses")) :
                    /\ model.acts.losses + i \notin written
                    /\ At(model.acts_memory, model.acts.losses + i)
                         = At(entry.acts_memory, model.acts.losses + i)

\* a call without targets has completed after a call with targets had left
\* its mean loss in mean_loss
C10_Witness ==
    /\ InCall /\ fpc = "done" /\ fwd.targets = NULL
    /\ entry.mean_loss > 0
    /\ const_model.mean_loss = 0 - Scale

\* the tensor view the pointer p addresses: its first offset and its size
C11_View(p) ==
    CASE p[1] = "acts" ->
           LET name == CHOOSE n \in DOMAIN model.acts :
                          /\ model.acts[n] <= p[2]
                          /\ p[2] < model.acts[n]
                                      + SizeOf(ActPtrs, model.act_sizes, n)
           IN  <<model.acts[name], SizeOf(ActPtrs, model.act_sizes, name)>>
      [] p[1] = "params" ->
           LET name == CHOOSE n \in DOMAIN model.params :
                          /\ model.params[n] <= p[2]
                          /\ p[2] < model.params[n]
                                      + SizeOf(ParamPtrs, model.param_sizes, n)
           IN  <<model.params[name],
                 SizeOf(ParamPtrs, model.param_sizes, name)>>
      [] OTHER -> <<0, fwd.B * fwd.T>>

\* every access of the kernel call `call` lies in the view it addresses
C11_CallInBounds(call) ==
    \A it \in IterationsOf(call, fwd.inputs, fwd.targets) :
        \A acc \in it.reads \cup it.writes :
            LET view == C11_View(call.args[acc[1]])
            IN  view[1] <= acc[2] /\ acc[2] < view[1] + view[2]

\* the call in flight was given the (B,T) that gpt2_init accepted
C11_Accepted ==
    fwd.B = const_model.batch_size /\ fwd.T = const_model.seq_len

\* C11 as the specification states it: for every config the build accepts,
\* every (B,T) gpt2_init accepts and every in-range token batch, every index
\* a kernel called from gpt2_forward reads or writes lies inside the tensor
\* view it addresses (the position-embedding rows t < T of wpe, the columns
\* i < V of a padded row, the head slices of the fused QKV row and the
\* residual3 block the final layernorm reads included).
C11_AccessesInsideViews ==
    (InCall /\ C11_Accepted) =>
        \A k \in 1 .. Len(trace) : C11_CallInBounds(trace[k])


\* the positions of row b up to t
C13_Earlier(b, t) == { b * fwd.T + t2 : t2 \in 0 .. t }

\* C13: when a gpt2_forward call has completed, the logits and the
\* probabilities at (b,t) depend on the input tokens of row b at positions
\* 0..t only, on no token at a later position of the row and on no token of
\* another row; two batches that agree on those tokens therefore give the
\* same logits and probabilities at (b,t) under the same parameters.
C13_OutputsDependOnEarlierTokensOnly ==
    (InCall /\ fpc = "done") =>
        LET Vp == const_model.config.padded_vocab_size
        IN  \A b \in Range0(fwd.B), t \in Range0(fwd.T), v \in Range0(Vp) :
               /\ flow[model.acts.logits + (b * fwd.T + t) * Vp + v]
                    \subseteq C13_Earlier(b, t)
               /\ flow[model.acts.probs + (b * fwd.T + t) * Vp + v]
                    \subseteq C13_Earlier(b, t)

\* a call over two rows of two positions has completed, and the logits at
\* the last position of the second row are computed from both tokens of
\* that row
C13_Witness ==
    /\ InCall /\ fpc = "done" /\ fwd.B = 2 /\ fwd.T = 2
    /\ flow[model.acts.logits + 3 * const_model.config.padded_vocab_size]
         = {2, 3}

\* the activation elements the k-th kernel call of the call in flight stores
C22_WrittenBy(k) ==
    { s.at[2] : s \in StoresOf(trace[k], fwd.inputs, fwd.targets) }

\* the activation elements the kernel calls before the k-th have stored
C22_WrittenBefore(k) == UNION { C22_WrittenBy(j) : j \in 1 .. k - 1 }

\* the activation elements a store of the k-th kernel call reads without
\* their having been written in this call of gpt2_forward: neither by an
\* earlier kernel call nor by an earlier pass of the same loop iteration
C22_ReadsOfPriorContents(k) ==
    LET stores == StoresOf(trace[k], fwd.inputs, fwd.targets)
        before == C22_WrittenBefore(k)
        fresh  == { s \in stores :
                      \E x \in s.reads : /\ trace[k].args[x[1]][1] = "acts"
                                          /\ x[2] \notin before }
    IN  UNION { { x[2] : x \in
                    { y \in s.reads :
                        /\ trace[k].args[y[1]][1] = "acts"
                        /\ y[2] \notin before
                        /\ ~ \E e \in stores :
                               /\ e.id = s.id /\ e.pass < s.pass
                               /\ e.at[2] = y[2] } }
                : s \in fresh }

\* C22: in a call of gpt2_forward every activation element a kernel reads
\* was written earlier in that same call (stated of the kernel call made
\* last, every kernel call being the last one when it is made), so that
\* the probabilities and the mean loss do not depend on what the activation
\* buffer held when the call was entered; in particular the projection
\* matmul reads no element of atty that attention_forward has not written,
\* and the mean loss is summed over losses that crossentropy_forward has
\* written.
C22_ReadsFollowWrites ==
    InCall =>
        /\ trace # <<>> => C22_ReadsOfPriorContents(Len(trace)) = {}
        /\ (fpc = "done" /\ fwd.targets # NULL) =>
               \A i \in Range0(fwd.B * fwd.T) :
                   model.acts.losses + i \in written

(***************************************************************************)
(* Claims about gpt2_update, checked under UpdateSpec.                     *)
(***************************************************************************)
\* a call of gpt2_update has been entered and has not yet returned
InUpdate == upd # NULL

\* C7: in a gpt2_update call the loop has read element idx of the shadow
\* parameter buffer once if it is past idx and never otherwise; an element
\* it has not reached still holds its gradient; the element it has just
\* left got its moments and its parameter from the gradient the shadow
\* buffer held on entry; every element it is past is zero, so that the
\* whole shadow parameter buffer is zero when the call returns.
C7_ShadowReadOnceThenZero ==
    InUpdate =>
        /\ \A idx \in Range0(const_model.num_parameters) :
              /\ At(upd.reads, idx) = (IF idx < upd.i THEN 1 ELSE 0)
              /\ idx < upd.i => At(shadow_model.params_memory, idx) = 0
              /\ idx >= upd.i =>
                    At(shadow_model.params_memory, idx) = At(upd.grads, idx)
        /\ upd.i > 0 =>
              LET idx == upd.i - 1
                  g   == At(upd.grads, idx)
                  m   == FMul(upd.beta1, At(upd.m_memory, idx))
                           + FMul(Scale - upd.beta1, g)
              IN  /\ last.i = idx /\ last.grad = g
                  /\ At(const_model.m_memory, idx) = m
                  /\ At(model.params_memory, idx)
                        = At(upd.params, idx) - last.update
                  /\ g # 0 => last.update # 0
        /\ upd.i = const_model.num_parameters =>
              \A idx \in Range0(const_model.num_parameters) :
                  At(shadow_model.params_memory, idx) = 0

\* a second call is about to return: it found gradients in the shadow
\* buffer, and has left none
C7_Witness ==
    /\ InUpdate /\ upd.i = const_model.num_parameters /\ ucount.calls = 2
    /\ \A idx \in Range0(const_model.num_parameters) :
          At(upd.grads, idx) # 0 /\ At(shadow_model.params_memory, idx) = 0

\* C8: the two moment buffers exist together or not at all; they do not
\* exist before the first gpt2_update call, which allocates them once, both
\* zero and num_parameters long; no later call allocates them, and every
\* later call starts its loop from the moments the previous call stored.
C8_MomentsAllocatedOnce ==
    /\ (const_model.m_memory = NULL) = (const_model.v_memory = NULL)
    /\ (const_model.m_memory = NULL) = (ucount.calls = 0)
    /\ ucount.allocs = (IF ucount.calls = 0 THEN 0 ELSE 1)
    /\ InUpdate =>
          /\ Len(const_model.m_memory) = const_model.num_parameters
          /\ Len(const_model.v_memory) = const_model.num_parameters
          /\ IF ucount.calls = 1
             THEN \A idx \in Range0(const_model.num_parameters) :
                      At(upd.m_memory, idx) = 0 /\ At(upd.v_memory, idx) = 0
             ELSE /\ upd.m_memory = ucount.stored.m_memory
                  /\ upd.v_memory = ucount.stored.v_memory

\* a third call works on the nonzero moments the second call stored
C8_Witness ==
    /\ InUpdate /\ ucount.calls = 3 /\ upd.i > 0
    /\ \A idx \in Range0(const_model.num_parameters) :
          /\ At(ucount.stored.m_memory, idx) # 0
          /\ At(ucount.stored.v_memory, idx) # 0
          /\ At(upd.m_memory, idx) = At(ucount.stored.m_memory, idx)

\* a and b differ by at most one unit of the last place
C9_Near(a, b) == a - b \in (0 - 1) .. 1

\* C9: an element with parameter p, gradient g and moments m, v leaves the
\* loop body with m' = beta1 m + (1 - beta1) g, v' = beta2 v + (1 - beta2)
\* g^2 and p' = p - lr ((m' / (1 - beta1^t)) / (sqrt(v' / (1 - beta2^t)) +
\* eps) + wd p).  With wd = 0, p = 1.0, g = 0.1, lr = 1e-4, beta1 = 0.9,
\* beta2 = 0.999, eps = 1e-8, t = 1 and zero moments: m' = 0.01, v' = 1e-5
\* and the update is 9.9999e-5.
C9_AdamW ==
    (InUpdate /\ upd.i > 0) =>
        LET idx == upd.i - 1
            p   == At(upd.params, idx)
            g   == At(upd.grads, idx)
            m   == At(upd.m_memory, idx)
            v   == At(upd.v_memory, idx)
            m1  == FMul(upd.beta1, m) + FMul(Scale - upd.beta1, g)
            v1  == FMul(upd.beta2, v) + FMul(Scale - upd.beta2, FMul(g, g))
            mh  == FDiv(m1, Scale - FPow(upd.beta1, upd.t))
            vh  == FDiv(v1, Scale - FPow(upd.beta2, upd.t))
            u   == FMul(upd.learning_rate,
                        FDiv(mh, FSqrt(vh) + upd.eps)
                          + FMul(upd.weight_decay, p))
        IN  /\ At(const_model.m_memory, idx) = m1
            /\ C9_Near(At(const_model.v_memory, idx), v1)
            /\ C9_Near(At(model.params_memory, idx), p - u)
            /\ ( /\ upd.weight_decay = 0 /\ p = Scale /\ g = Scale \div 10
                 /\ upd.learning_rate = Scale \div 10000
                 /\ upd.beta1 = 9 * (Scale \div 10)
                 /\ upd.beta2 = 999 * (Scale \div 1000)
                 /\ upd.eps = 10 /\ upd.t = 1 /\ m = 0 /\ v = 0 )
               => /\ At(const_model.m_memory, idx) = Scale \div 100
                  /\ At(const_model.v_memory, idx) = Scale \div 100000
                  /\ last.update = 99999
                  /\ At(model.params_memory, idx) = Scale - 99999

\* the first call has updated an element of the example: p = 1.0 and
\* g = 0.1 without weight decay
C9_Witness ==
    /\ InUpdate /\ upd.i > 0 /\ upd.t = 1 /\ upd.weight_decay = 0
    /\ At(upd.params, upd.i - 1) = Scale
    /\ At(upd.grads, upd.i - 1) = Scale \div 10
    /\ At(upd.m_memory, upd.i - 1) = 0 /\ At(upd.v_memory, upd.i - 1) = 0
    /\ last.update = 99999


(***************************************************************************)
(* The claim about main(), checked under TrainSpec.                        *)
(***************************************************************************)
\* the differentiation call of a training step is beginning
C6_DifferentiationBegins ==
    fwd # NULL /\ fwd.caller = "autodiff" /\ fpc = "validate"

\* C6 as the specification states it: at every training step, the first
\* included, every element of the shadow parameter buffer is zero when the
\* differentiation call on gpt2_forward begins.
C6_ShadowZeroAtDifferentiation ==
    C6_DifferentiationBegins =>
        \A idx \in Range0(const_model.num_parameters) :
            At(shadow_model.params_memory, idx) = 0


\* no gpt2_update call is in flight while a gpt2_forward call or a
\* differentiation call is, and no kernel call of the call in flight stores
\* through a pointer into the parameter buffer
C19_NoUpdateInsideForward ==
    InCall =>
        /\ upd = NULL
        /\ \A k \in 1 .. Len(trace) :
              \A s \in StoresOf(trace[k], fwd.inputs, fwd.targets) :
                  trace[k].args[s.at[1]][1] = "acts"

\* what a step may change
C19_Frame ==
    /\ (InCall \/ fwd' # NULL) =>
          /\ model'.params_memory = model.params_memory
          /\ const_model'.config = const_model.config
    /\ (upd # NULL \/ upd' # NULL) =>
          /\ model'.acts_memory = model.acts_memory
          /\ const_model'.config = const_model.config
          /\ const_model'.batch_size = const_model.batch_size
          /\ const_model'.seq_len = const_model.seq_len
    /\ (model.params_memory # NULL
          /\ model'.params_memory # model.params_memory) =>
          upd # NULL /\ upd' # NULL

\* C19: gpt2_forward leaves every parameter element and every config field
\* as it was; a parameter element changes only inside gpt2_update, which
\* leaves the activation buffer, the config and the recorded batch_size and
\* seq_len as they were; and in the training loop no step of gpt2_update
\* falls between the start and the end of a forward or differentiation call.
C19_ForwardAndUpdateFrames ==
    [] C19_NoUpdateInsideForward /\ [][C19_Frame]_vars

\* gpt2_update is in flight after a forward call has filled the activation
\* buffer, and has changed a parameter element
C19_Witness ==
    /\ upd # NULL /\ upd.i > 0
    /\ model.params_memory # upd.params
    /\ \E x \in 1 .. Len(model.acts_memory) : model.acts_memory[x] # Garbage

(***************************************************************************)
(* Claims about main on a system that refuses a buffer, checked under      *)
(* AllocSpec.                                                              *)
(***************************************************************************)
\* the program has asked the system for `buffer`
C21_Requested(buffer) ==
    CASE buffer = "params_memory" -> model.param_sizes # NULL
      [] buffer = "acts_memory"   -> model.act_sizes # NULL
      [] buffer = "inputs"        -> model.acts_memory # NULL
      [] buffer = "targets"       -> const_model.inputs # NULL
      [] OTHER                    -> ucount.allocs > 0

\* C21: whenever the allocation of the parameter buffer, of the activation
\* buffer, of the input or target cache or of a moment buffer has failed,
\* the process has stopped with the diagnostic of mallocCheck, and no
\* element of the failed buffer has been read or written: the buffer is
\* still NULL and the loop of gpt2_update has not been entered.
C21_AllocationFailureIsFatal ==
    \A buffer \in heap :
        C21_Requested(buffer) =>
            /\ proc = "exit(EXIT_FAILURE)"
            /\ upd = NULL
            /\ buffer = "params_memory" => model.params_memory = NULL
            /\ buffer = "acts_memory" => model.acts_memory = NULL
            /\ buffer = "inputs" => const_model.inputs = NULL
            /\ buffer = "targets" => const_model.targets = NULL

(***************************************************************************)
(* Claims about single kernels, checked under KernelSpec.                  *)
(***************************************************************************)
\* the call of `kernel` has run all the iterations of its outer loop
Finished(kernel) ==
    /\ kern.call.kernel = kernel
    /\ kern.done = { it.id : it \in IterationsOf(kern.call, kern.tokens,
                                                 kern.tokens) }

\* att[b, h, t, t2] as attention_forward left it
C12_Att(b, h, t, t2) ==
    LET a == kern.call.args
    IN  At(kern.acts, a[3][2] + b * a[8] * a[6] * a[6] + h * a[6] * a[6]
                        + t * a[6] + t2)

\* the weighted sum over t2 <= t of channel i of the value vectors of head h
C12_WeightedValues(b, h, t, i) ==
    LET a  == kern.call.args
        hs == a[7] \div a[8]
    IN  SumTo([k \in 1 .. t + 1 |->
                 MulQ(C12_Att(b, h, t, k - 1),
                      At(kern.acts, a[4][2] + b * a[6] * 3 * a[7]
                                      + (k - 1) * 3 * a[7] + h * hs
                                      + 2 * a[7] + i))], t + 1)

\* C12 as the specification states it: after attention_forward, for every
\* (b, t, head), the weights att[b,head,t,t2] are exactly 0 for t2 > t and
\* sum to 1 over t2 <= t (to within one unit of rounding per product and per
\* weight), and the output at (b,t) is the sum of the value vectors at the
\* positions t2 <= t weighted by them.
C12_CausalWeights ==
    Finished("attention_forward") =>
        LET a == kern.call.args
        IN  \A b \in Range0(a[5]), t \in Range0(a[6]), h \in Range0(a[8]) :
               /\ \A t2 \in t + 1 .. a[6] - 1 : C12_Att(b, h, t, t2) = 0
               /\ Abs(SumTo([k \in 1 .. t + 1 |-> C12_Att(b, h, t, k - 1)],
                            t + 1) - Q) <= 2 * (t + 1)
               /\ \A i \in Range0(a[7] \div a[8]) :
                     At(kern.acts, a[1][2] + b * a[6] * a[7] + t * a[7]
                                     + h * (a[7] \div a[8]) + i)
                       = C12_WeightedValues(b, h, t, i)


\* the sum of the probabilities that row (b,t) of a softmax_forward call
\* holds at the indices below V
C14_Sum(b, t) ==
    LET a  == kern.call.args
        at == a[1][2] + (b * a[4] + t) * a[6]
    IN  SumTo([k \in 1 .. a[5] |-> At(kern.acts, at + k - 1)], a[5])

\* C14: after softmax_forward, for every (b,t), the probabilities at the
\* indices [0,V) sum to 1 (to within one unit per term) and every
\* probability at an index in [V,Vp) is exactly 0, whatever the logits are.
C14_RowsAreDistributions ==
    Finished("softmax_forward") =>
        LET a == kern.call.args
        IN  \A b \in Range0(a[3]), t \in Range0(a[4]) :
               /\ Abs(C14_Sum(b, t) - Q) <= a[5]
               /\ \A i \in a[5] .. a[6] - 1 :
                     At(kern.acts, a[1][2] + (b * a[4] + t) * a[6] + i) = 0


\* a token has been sampled from a row of probabilities
C15_Sampled == kern.sampled # NULL

\* C15: sample_mult reads only the indices [0, vocab_size) of the row it is
\* given, so no padded entry, and returns an index of [0, vocab_size) for
\* every coin of [0,1); the token sampled therefore passes the range check
\* gpt2_forward makes of its inputs.
C15_SampleInVocabulary ==
    C15_Sampled =>
        LET V == kern.call.args[5]
            s == kern.sampled
        IN  /\ s.reads \subseteq { s.probs + i : i \in Range0(V) }
            /\ s.next_token \in sample_mult(V)
            /\ TokensInRange([B |-> 1, T |-> 1, inputs |-> <<s.next_token>>,
                              targets |-> NULL], V)

\* a token has been sampled from a padded row whose probabilities, added
\* up, never exceed the coin, so that the loop of sample_mult ran to its end
C15_Witness ==
    /\ C15_Sampled
    /\ kern.call.args[6] > kern.call.args[5]
    /\ kern.sampled.next_token = kern.call.args[5] - 1
    /\ kern.sampled.reads
         = { kern.sampled.probs + i : i \in Range0(kern.call.args[5]) }
    /\ C14_Sum(0, 0) <= kern.sampled.coin


\* out[bt, o] as matmul_forward_naive computes it from the buffers the call
\* was entered with: bias[o], or 0, plus the sum of inp[bt,i] * weight[o,i]
C16_Naive(bt, o) ==
    LET a == kern.call.args
    IN  At(matmul_forward_naive_iteration(
               <<a[1], a[2], a[3], a[4], 1, a[5] * a[6], a[7], a[8]>>,
               kern.entry, kern.params, 0, bt),
           a[1][2] + bt * a[8] + o)

\* C16: matmul_forward stores every out[bt, o] exactly once, the value
\* stored is the one matmul_forward_naive computes, and the strided loop is
\* the one that runs exactly when B * T is a multiple of 8.
C16_TiledIsNaive ==
    Finished("matmul_forward") =>
        LET a == kern.call.args
        IN  /\ \A bt \in Range0(a[5] * a[6]), o \in Range0(a[8]) :
                 /\ Cardinality({ s \in StoresOf(kern.call, <<>>, <<>>) :
                                    s.at = <<1, a[1][2] + bt * a[8] + o>> }) = 1
                 /\ At(kern.acts, a[1][2] + bt * a[8] + o) = C16_Naive(bt, o)
            /\ (\A id \in kern.done : Len(id) = 1)
                 <=> (a[5] * a[6]) % 8 = 0
            /\ (\A id \in kern.done : Len(id) = 2)
                 <=> (a[5] * a[6]) % 8 # 0

\* matmul_forward has run its strided loop twice over sixteen rows, with a
\* bias, and the output is no longer what the buffer held before
C16_Witness ==
    /\ Finished("matmul_forward")
    /\ kern.done = { <<0>>, <<8>> }
    /\ kern.call.args[4] # NullPtr
    /\ kern.acts # kern.entry


\* the iterations of the outer loop of the call
C20_Iterations == IterationsOf(kern.call, kern.tokens, kern.tokens)

\* the places in memory of a set of locations: the buffer and the offset
C20_Places(locs) == { <<kern.call.args[l[1]][1], l[2]>> : l \in locs }

\* loop order: (b, t, h), (b, t) or obt, the first index the slowest
C20_Before(x, y) ==
    \E k \in 1 .. Len(x) : x[k] < y[k] /\ \A j \in 1 .. k - 1 : x[j] = y[j]

\* mem after the iterations `ids` have run on it one after another in loop
\* order
RECURSIVE C20_Sequential(_, _)
C20_Sequential(mem, ids) ==
    IF ids = {} THEN mem
    ELSE LET id == CHOOSE x \in ids : \A y \in ids \ {x} : C20_Before(x, y)
         IN  C20_Sequential(IterationOf([kern EXCEPT !.acts = mem], id),
                            ids \ {id})

\* C20: within one call of layernorm_forward, matmul_forward (strided or
\* naive), attention_forward, softmax_forward, crossentropy_forward or
\* encoder_forward, two distinct iterations of the outer loop write disjoint
\* places and neither reads a place the other writes; whatever the order in
\* which the iterations have run, the buffer is what the same iterations
\* leave when run one after another in loop order.
C20_IterationsAreIndependent ==
    /\ \A i, j \in C20_Iterations :
          i.id # j.id =>
             /\ C20_Places(i.writes) \cap C20_Places(j.writes) = {}
             /\ C20_Places(i.reads) \cap C20_Places(j.writes) = {}
    /\ kern.acts = C20_Sequential(kern.entry, kern.done)

\* three iterations of an attention_forward call have run, the first of the
\* loop not among them
C20_Witness ==
    /\ kern.call.kernel = "attention_forward"
    /\ Cardinality(kern.done) = 3 /\ <<0, 0, 0>> \notin kern.done
    /\ kern.acts # kern.entry


\* the scaled scores preatt[b, h, t, t2], t2 <= t, that the iteration
\* (b, t, h) of attention_forward has stored
C23_Scores(b, t, h) ==
    LET a == kern.call.args
    IN  { At(kern.acts, a[2][2] + b * a[8] * a[6] * a[6] + h * a[6] * a[6]
                          + t * a[6] + t2) : t2 \in 0 .. t }

\* C23: in every iteration (b, t, head) of attention_forward, on every
\* input, the value subtracted from the scores is the largest of the scaled
\* scores over t2 <= t, the normaliser expsum is at least 1, and so never 0.
C23_MaxvalIsLargestScore ==
    kern.call.kernel = "attention_forward" =>
        \A id \in kern.done :
            LET n == attention_forward_normaliser(kern.call.args, kern.entry,
                                                  id[1], id[2], id[3])
            IN  /\ n.maxval = MaxOf(C23_Scores(id[1], id[2], id[3]))
                /\ n.expsum >= Q
                /\ n.expsum # 0

=============================================================================
